---------------------------- MODULE Spec2Model ----------------------------
(***************************************************************************)
(* A model of container-host: the pipeline that makes sure a Fedora CoreOS *)
(* image is cached and extracted (coreos_download.go), that an SSH key     *)
(* pair exists, that an Ignition document is written per instance, and     *)
(* that one QEMU process is started per instance (the multi-instance       *)
(* main() whose Go text is stored in src/SECURITY.md from line 323 on).    *)
(*                                                                         *)
(* Go strings are sequences of characters.  A character is a TLA+ string:  *)
(* a decimal digit, one of the named characters below, or a token that     *)
(* stands for a run of ordinary printable ASCII text.                      *)
(***************************************************************************)
EXTENDS Integers, Sequences, FiniteSets, TLC

(***************************************************************************)
(* Bounds of the model.                                                    *)
(***************************************************************************)
\* Largest configured number of instances (config.VM.Instances).
MaxInstances == 3
\* Longest public key file content that is enumerated.
MaxKeyLen == 2
\* Number of blocks the decompressed image consists of.
ImageBlocks == 2
\* Largest distance between two neighbouring base ports that is enumerated.
MaxGap == 3

(***************************************************************************)
(* Characters.                                                             *)
(***************************************************************************)
\* space and newline: what strings.TrimSpace removes at both ends
WhiteSpace == {"SP", "NL"}

Digits == <<"0", "1", "2", "3", "4", "5", "6", "7", "8", "9">>

DigitSet == {Digits[k] : k \in 1..10}

\* the value of a digit character
DigitVal(c) == (CHOOSE k \in 1..10 : Digits[k] = c) - 1

\* a Go string literal of ordinary text, kept as one token
Str(t) == <<t>>

RECURSIVE Concat(_)
\* the concatenation of a sequence of strings
Concat(ss) == IF ss = <<>> THEN <<>> ELSE Head(ss) \o Concat(Tail(ss))

\* all strings over `alphabet` of length at most n
StringsUpTo(alphabet, n) == UNION {[1..k -> alphabet] : k \in 0..n}

(***************************************************************************)
(* strings.TrimSpace, as used by createIgnitionConfig                      *)
(***************************************************************************)
RECURSIVE TrimLeft(_)
TrimLeft(s) ==
    IF s # <<>> /\ Head(s) \in WhiteSpace THEN TrimLeft(Tail(s)) ELSE s

RECURSIVE TrimRight(_)
TrimRight(s) ==
    IF s # <<>> /\ s[Len(s)] \in WhiteSpace
    THEN TrimRight(SubSeq(s, 1, Len(s) - 1))
    ELSE s

TrimSpace(s) == TrimRight(TrimLeft(s))

(***************************************************************************)
(* strconv.Atoi and strconv.Itoa, as used by calculatePort                 *)
(***************************************************************************)
RECURSIVE DigitsValue(_, _)
\* the number written by the digit string s, continuing from acc
DigitsValue(s, acc) ==
    IF s = <<>> THEN acc
    ELSE DigitsValue(Tail(s), 10 * acc + DigitVal(Head(s)))

AllDigits(s) == s # <<>> /\ \A k \in 1..Len(s) : s[k] \in DigitSet

\* strconv.Atoi: an optional sign, then at least one decimal digit
Atoi(s) ==
    LET signed == s # <<>> /\ Head(s) \in {"+", "-"}
        body   == IF signed THEN Tail(s) ELSE s
    IN  IF ~AllDigits(body)
        THEN [err |-> TRUE, val |-> 0]
        ELSE [err |-> FALSE,
              val |-> IF signed /\ Head(s) = "-"
                      THEN 0 - DigitsValue(body, 0)
                      ELSE DigitsValue(body, 0)]

RECURSIVE NatToDigits(_)
NatToDigits(n) ==
    IF n < 10 THEN <<Digits[n + 1]>>
    ELSE NatToDigits(n \div 10) \o <<Digits[(n % 10) + 1]>>

\* strconv.Itoa
Itoa(n) == IF n < 0 THEN <<"-">> \o NatToDigits(0 - n) ELSE NatToDigits(n)

\* calculatePort with a fault: the offset is left out
calculatePortNoOffset(basePort, instanceOffset) ==
    LET port == Atoi(basePort)
    IN  IF port.err THEN [err |-> TRUE, port |-> <<>>]
        ELSE [err |-> FALSE, port |-> Itoa(port.val)]

\* calculatePort with a fault: the offset is counted twice
calculatePortDoubleOffset(basePort, instanceOffset) ==
    LET port == Atoi(basePort)
    IN  IF port.err THEN [err |-> TRUE, port |-> <<>>]
        ELSE [err |-> FALSE, port |-> Itoa(port.val + 2 * instanceOffset)]

\* calculatePort adds an offset to the base port for multiple instances
calculatePort(basePort, instanceOffset) ==
    LET port == Atoi(basePort)
    IN  IF port.err THEN [err |-> TRUE, port |-> <<>>]
        ELSE [err |-> FALSE, port |-> Itoa(port.val + instanceOffset)]


(***************************************************************************)
(* encoding/json, as used on the IgnitionConfig structure.                 *)
(* json.Marshal writes a Go string between two DQ characters and escapes   *)
(* DQ, BS, control characters and the HTML characters; a byte that is not  *)
(* valid UTF-8 (xFF) is written as the escape of U+FFFD.                   *)
(***************************************************************************)
\* EscapeChar with a fault: the quote character is written unescaped
EscapeCharRawQuote(c) ==
    CASE c = "DQ"  -> <<"DQ">>
      [] c = "BS"  -> <<"BS", "BS">>
      [] c = "NL"  -> <<"BS", "n">>
      [] c = "LT"  -> <<"BS", "u003c">>
      [] c = "xFF" -> <<"BS", "ufffd">>
      [] OTHER     -> <<c>>

\* the bytes json.Marshal writes for one character of a string
EscapeChar(c) ==
    CASE c = "DQ"  -> <<"BS", "DQ">>
      [] c = "BS"  -> <<"BS", "BS">>
      [] c = "NL"  -> <<"BS", "n">>
      [] c = "LT"  -> <<"BS", "u003c">>
      [] c = "xFF" -> <<"BS", "ufffd">>
      [] OTHER     -> <<c>>

\* the escapes the decoder knows, by the character after BS
Escapes == {"DQ", "BS", "n", "u003c", "ufffd"}

\* the character an escape stands for
UnescapeChar(e) ==
    CASE e = "DQ"    -> "DQ"
      [] e = "BS"    -> "BS"
      [] e = "n"     -> "NL"
      [] e = "u003c" -> "LT"
      [] e = "ufffd" -> "uFFFD"

MarshalString(s) ==
    <<"DQ">> \o Concat([k \in 1..Len(s) |-> EscapeChar(s[k])]) \o <<"DQ">>

MarshalBool(b) == IF b THEN <<"true">> ELSE <<"false">>

RECURSIVE JoinComma(_)
\* the elements of an array or the members of an object, separated by commas
JoinComma(parts) ==
    IF parts = <<>> THEN <<>>
    ELSE IF Len(parts) = 1 THEN Head(parts)
    ELSE Head(parts) \o <<",">> \o JoinComma(Tail(parts))

MarshalArray(parts) == <<"[">> \o JoinComma(parts) \o <<"]">>

MarshalObject(members) ==
    <<"{">> \o
    JoinComma([k \in 1..Len(members) |->
                  MarshalString(Str(members[k][1])) \o <<":">> \o members[k][2]])
    \o <<"}">>

\* type User struct, with its json tags
MarshalUser(u) ==
    MarshalObject(<<
        <<"name", MarshalString(u.name)>>,
        <<"sshAuthorizedKeys",
          MarshalArray([k \in 1..Len(u.sshAuthorizedKeys) |->
                           MarshalString(u.sshAuthorizedKeys[k])])>> >>)

\* type SystemdUnit struct, with its json tags
MarshalUnit(u) ==
    MarshalObject(<<
        <<"name", MarshalString(u.name)>>,
        <<"enabled", MarshalBool(u.enabled)>>,
        <<"contents", MarshalString(u.contents)>> >>)

\* json.Marshal of an IgnitionConfig
Marshal(c) ==
    MarshalObject(<<
        <<"ignition",
          MarshalObject(<< <<"version", MarshalString(c.ignition.version)>> >>)>>,
        <<"passwd",
          MarshalObject(<< <<"users",
              MarshalArray([k \in 1..Len(c.passwd.users) |->
                               MarshalUser(c.passwd.users[k])])>> >>)>>,
        <<"systemd",
          MarshalObject(<< <<"units",
              MarshalArray([k \in 1..Len(c.systemd.units) |->
                               MarshalUnit(c.systemd.units[k])])>> >>)>> >>)

(***************************************************************************)
(* The decoder: JSON text to a JSON value, then the value into the struct. *)
(***************************************************************************)
JStr(x) == [t |-> "str", s |-> x, b |-> FALSE]

JBool(x) == [t |-> "bool", s |-> <<>>, b |-> x]

JArr(x) == [t |-> "arr", s |-> x, b |-> FALSE]

JObj(x) == [t |-> "obj", s |-> x, b |-> FALSE]

JNone == [t |-> "none", s |-> <<>>, b |-> FALSE]

ParseFail == [ok |-> FALSE, v |-> JNone, n |-> 0]

RECURSIVE ReadString(_, _, _)
\* the string literal whose first character after the opening DQ is s[i]
ReadString(s, i, acc) ==
    IF i > Len(s) THEN ParseFail
    ELSE IF s[i] = "DQ" THEN [ok |-> TRUE, v |-> JStr(acc), n |-> i + 1]
    ELSE IF s[i] = "BS"
         THEN IF i + 1 > Len(s) \/ s[i + 1] \notin Escapes
              THEN ParseFail
              ELSE ReadString(s, i + 2, Append(acc, UnescapeChar(s[i + 1])))
    ELSE IF s[i] = "NL" THEN ParseFail
    ELSE IF s[i] = "xFF" THEN ReadString(s, i + 1, Append(acc, "uFFFD"))
    ELSE ReadString(s, i + 1, Append(acc, s[i]))

RECURSIVE ParseValue(_, _), ParseElements(_, _, _), ParseMembers(_, _, _)
\* the JSON value that starts at s[i]
ParseValue(s, i) ==
    IF i > Len(s) THEN ParseFail
    ELSE CASE s[i] = "DQ"    -> ReadString(s, i + 1, <<>>)
           [] s[i] = "true"  -> [ok |-> TRUE, v |-> JBool(TRUE), n |-> i + 1]
           [] s[i] = "false" -> [ok |-> TRUE, v |-> JBool(FALSE), n |-> i + 1]
           [] s[i] = "["     ->
                IF i + 1 <= Len(s) /\ s[i + 1] = "]"
                THEN [ok |-> TRUE, v |-> JArr(<<>>), n |-> i + 2]
                ELSE ParseElements(s, i + 1, <<>>)
           [] s[i] = "{"     ->
                IF i + 1 <= Len(s) /\ s[i + 1] = "}"
                THEN [ok |-> TRUE, v |-> JObj(<<>>), n |-> i + 2]
                ELSE ParseMembers(s, i + 1, <<>>)
           [] OTHER          -> ParseFail

\* the elements of an array, the next one starting at s[i]
ParseElements(s, i, acc) ==
    LET e == ParseValue(s, i)
    IN  IF ~e.ok \/ e.n > Len(s) THEN ParseFail
        ELSE IF s[e.n] = "," THEN ParseElements(s, e.n + 1, Append(acc, e.v))
        ELSE IF s[e.n] = "]"
             THEN [ok |-> TRUE, v |-> JArr(Append(acc, e.v)), n |-> e.n + 1]
        ELSE ParseFail

\* the members of an object, the next key starting at s[i]
ParseMembers(s, i, acc) ==
    IF i > Len(s) \/ s[i] # "DQ" THEN ParseFail
    ELSE LET k == ReadString(s, i + 1, <<>>)
         IN  IF ~k.ok \/ k.n > Len(s) \/ s[k.n] # ":" THEN ParseFail
             ELSE LET e == ParseValue(s, k.n + 1)
                      m == [k |-> k.v.s, v |-> e.v]
                  IN  IF ~e.ok \/ e.n > Len(s) THEN ParseFail
                      ELSE IF s[e.n] = ","
                           THEN ParseMembers(s, e.n + 1, Append(acc, m))
                      ELSE IF s[e.n] = "}"
                           THEN [ok |-> TRUE, v |-> JObj(Append(acc, m)),
                                 n |-> e.n + 1]
                      ELSE ParseFail

\* the value of the member of object o that the json tag `name` selects (the
\* last one when the key is repeated), JNone when there is none
Field(o, name) ==
    LET hits == {k \in 1..Len(o.s) : o.s[k].k = Str(name)}
    IN  IF o.t # "obj" \/ hits = {} THEN JNone
        ELSE o.s[CHOOSE k \in hits : \A h \in hits : h <= k].v

\* a string field: absent leaves the zero value, another type is an error
StringField(o, name) ==
    LET f == Field(o, name)
    IN  [err |-> f.t \notin {"none", "str"},
         val |-> IF f.t = "str" THEN f.s ELSE <<>>]

BoolField(o, name) ==
    LET f == Field(o, name)
    IN  [err |-> f.t \notin {"none", "bool"},
         val |-> IF f.t = "bool" THEN f.b ELSE FALSE]

\* an array field, as the sequence of its JSON values
ArrayField(o, name) ==
    LET f == Field(o, name)
    IN  [err |-> f.t \notin {"none", "arr"},
         val |-> IF f.t = "arr" THEN f.s ELSE <<>>]

\* an object field; absent leaves an empty object
ObjectField(o, name) ==
    LET f == Field(o, name)
    IN  [err |-> f.t \notin {"none", "obj"},
         val |-> IF f.t = "obj" THEN f ELSE JObj(<<>>)]

DecodeUser(v) ==
    LET name == StringField(v, "name")
        keys == ArrayField(v, "sshAuthorizedKeys")
    IN  [err |-> v.t # "obj" \/ name.err \/ keys.err
                   \/ \E k \in 1..Len(keys.val) : keys.val[k].t # "str",
         val |-> [name |-> name.val,
                  sshAuthorizedKeys |->
                      [k \in 1..Len(keys.val) |-> keys.val[k].s]]]

DecodeUnit(v) ==
    LET name     == StringField(v, "name")
        enabled  == BoolField(v, "enabled")
        contents == StringField(v, "contents")
    IN  [err |-> v.t # "obj" \/ name.err \/ enabled.err \/ contents.err,
         val |-> [name |-> name.val, enabled |-> enabled.val,
                  contents |-> contents.val]]

\* the zero value of IgnitionConfig (var testConfig IgnitionConfig)
ZeroConfig ==
    [ignition |-> [version |-> <<>>],
     passwd   |-> [users |-> <<>>],
     systemd  |-> [units |-> <<>>]]

\* json.Unmarshal(data, &testConfig): the error and the structure filled in
Unmarshal(data) ==
    LET p == ParseValue(data, 1)
    IN  IF ~p.ok \/ p.n # Len(data) + 1 \/ p.v.t # "obj"
        THEN [err |-> TRUE, config |-> ZeroConfig]
        ELSE
        LET ign     == ObjectField(p.v, "ignition")
            version == StringField(ign.val, "version")
            passwd  == ObjectField(p.v, "passwd")
            users   == ArrayField(passwd.val, "users")
            systemd == ObjectField(p.v, "systemd")
            units   == ArrayField(systemd.val, "units")
            us      == [k \in 1..Len(users.val) |-> DecodeUser(users.val[k])]
            un      == [k \in 1..Len(units.val) |-> DecodeUnit(units.val[k])]
        IN  [err |-> ign.err \/ version.err \/ passwd.err \/ users.err
                       \/ systemd.err \/ units.err
                       \/ (\E k \in 1..Len(us) : us[k].err)
                       \/ (\E k \in 1..Len(un) : un[k].err),
             config |->
                [ignition |-> [version |-> version.val],
                 passwd   |-> [users |-> [k \in 1..Len(us) |-> us[k].val]],
                 systemd  |-> [units |-> [k \in 1..Len(un) |-> un[k].val]]]]

(***************************************************************************)
(* createIgnitionConfig: the unit texts, one token per line of text        *)
(***************************************************************************)
RECURSIVE Lines(_)
\* the lines joined by newlines (no newline after the last one)
Lines(ls) ==
    IF ls = <<>> THEN <<>>
    ELSE IF Len(ls) = 1 THEN Head(ls)
    ELSE Head(ls) \o <<"NL">> \o Lines(Tail(ls))

setupLinger ==
    Lines(<<Str("[Unit]"),
            Str("Description=Enable linger for user 'core' (start user manager at boot)"),
            Str("After=network.target"),
            <<>>,
            Str("[Service]"),
            Str("Type=oneshot"),
            Str("ExecStart=/usr/bin/loginctl enable-linger core"),
            <<>>,
            Str("[Install]"),
            Str("WantedBy=multi-user.target"),
            <<>> >>)

dockerServiceContents ==
    Lines(<<Str("[Unit]"),
            Str("Description=Enable and start Docker engine"),
            Str("After=network-online.target"),
            Str("Wants=network-online.target"),
            <<>>,
            Str("[Service]"),
            Str("Type=oneshot"),
            Str("RemainAfterExit=yes"),
            Str("ExecStart=/usr/bin/systemctl enable docker.service"),
            Str("ExecStart=/usr/bin/systemctl start docker.service"),
            <<>>,
            Str("[Install]"),
            Str("WantedBy=multi-user.target")>>)

\* fmt.Sprintf of the forwarder unit with the port in place of %s
dockerTcpServiceContents(dockerPort) ==
    Lines(<<Str("[Unit]"),
            Str("Description=Forward Docker socket over TCP"),
            Str("After=docker.service"),
            Str("Requires=docker.service"),
            <<>>,
            Str("[Service]"),
            Str("Type=simple"),
            Str("Restart=always"),
            Str("RestartSec=5"),
            Str("ExecStart=/usr/bin/socat TCP-LISTEN:") \o dockerPort
                \o Str(",bind=0.0.0.0,fork,reuseaddr UNIX-CONNECT:/var/run/docker.sock"),
            <<>>,
            Str("[Install]"),
            Str("WantedBy=multi-user.target")>>)

disableZincatiServiceContents ==
    Lines(<<Str("[Unit]"),
            Str("Description=Disable Zincati automatic updates"),
            Str("DefaultDependencies=no"),
            <<>>,
            Str("[Service]"),
            Str("Type=oneshot"),
            Str("RemainAfterExit=yes"),
            Str("ExecStart=/usr/bin/systemctl mask zincati.service"),
            <<>>,
            Str("[Install]"),
            Str("WantedBy=multi-user.target")>>)

\* the IgnitionConfig value createIgnitionConfig builds before marshalling
IgnitionStruct(sshPublicKey, dockerPort) ==
    [ignition |-> [version |-> Str("3.4.0")],
     passwd   |-> [users |-> <<[name |-> Str("core"),
                                sshAuthorizedKeys |-> <<TrimSpace(sshPublicKey)>>]>>],
     systemd  |-> [units |-> <<
        [name |-> Str("docker-setup.service"), enabled |-> TRUE,
         contents |-> dockerServiceContents],
        [name |-> Str("docker-tcp-proxy.service"), enabled |-> TRUE,
         contents |-> dockerTcpServiceContents(dockerPort)],
        [name |-> Str("disable-zincati.service"), enabled |-> TRUE,
         contents |-> disableZincatiServiceContents],
        [name |-> Str("setup-linger-core.service"), enabled |-> TRUE,
         contents |-> setupLinger]>>]]

\* createIgnitionConfig: the marshalled document (json.Marshal of this
\* structure returns no error)
createIgnitionConfig(sshPublicKey, dockerPort) ==
    Marshal(IgnitionStruct(sshPublicKey, dockerPort))


(***************************************************************************)
(* profileForArch and findFirstExisting                                    *)
(***************************************************************************)
\* profileForArch with a fault: the fallback profile names a firmware file
profileForArchFallbackFirmware(arch) ==
    CASE arch = "aarch64" ->
            [binary  |-> <<"qemu-system-", "aarch64">>,
             machine |-> Str("virt"),
             cpu     |-> Str("max"),
             biosCandidates |-> <<"/opt/homebrew/share/qemu/edk2-aarch64-code.fd",
                                  "/usr/share/edk2/aarch64/QEMU_EFI.fd",
                                  "/usr/share/AAVMF/AAVMF_CODE.fd",
                                  "/usr/share/qemu-efi-aarch64/QEMU_EFI.fd">>]
      [] arch \in {"x86_64", "amd64"} ->
            [binary  |-> <<"qemu-system-", "x86_64">>,
             machine |-> Str("virt"),
             cpu     |-> Str("max"),
             biosCandidates |-> <<"/opt/homebrew/share/qemu/edk2-x86_64-code.fd",
                                  "/usr/share/OVMF/OVMF_CODE.fd",
                                  "/usr/share/edk2/ovmf/OVMF_CODE.fd">>]
      [] OTHER ->
            [binary  |-> <<"qemu-system-", arch>>,
             machine |-> Str("virt"),
             cpu     |-> Str("host"),
             biosCandidates |-> <<"/usr/share/OVMF/OVMF_CODE.fd">>]

\* profileForArch: the binary name is "qemu-system-" followed by a name
profileForArch(arch) ==
    CASE arch = "aarch64" ->
            [binary  |-> <<"qemu-system-", "aarch64">>,
             machine |-> Str("virt"),
             cpu     |-> Str("max"),
             biosCandidates |-> <<"/opt/homebrew/share/qemu/edk2-aarch64-code.fd",
                                  "/usr/share/edk2/aarch64/QEMU_EFI.fd",
                                  "/usr/share/AAVMF/AAVMF_CODE.fd",
                                  "/usr/share/qemu-efi-aarch64/QEMU_EFI.fd">>]
      [] arch \in {"x86_64", "amd64"} ->
            [binary  |-> <<"qemu-system-", "x86_64">>,
             machine |-> Str("virt"),
             cpu     |-> Str("max"),
             biosCandidates |-> <<"/opt/homebrew/share/qemu/edk2-x86_64-code.fd",
                                  "/usr/share/OVMF/OVMF_CODE.fd",
                                  "/usr/share/edk2/ovmf/OVMF_CODE.fd">>]
      [] OTHER ->
            \* Fallback: QEMU naming usually matches qemu-system-<arch>.
            [binary  |-> <<"qemu-system-", arch>>,
             machine |-> Str("virt"),
             cpu     |-> Str("host"),
             biosCandidates |-> <<>>]

\* findFirstExisting with a fault: the loop does not stop at the first path
\* that exists
findFirstExistingLast(paths, existing) ==
    LET found == {k \in 1..Len(paths) : paths[k] \in existing}
    IN  IF found = {} THEN ""
        ELSE paths[CHOOSE k \in found : \A m \in found : m <= k]

RECURSIVE findFirstExisting(_, _)
\* the first of `paths` that is in `existing` (os.Stat succeeds), or ""
findFirstExisting(paths, existing) ==
    IF paths = <<>> THEN ""
    ELSE IF Head(paths) \in existing THEN Head(paths)
    ELSE findFirstExisting(Tail(paths), existing)

\* biosArgs: -bios and the path when a firmware file was found
BiosArgs(prof, existing) ==
    LET biosPath == findFirstExisting(prof.biosCandidates, existing)
    IN  IF biosPath # "" THEN <<Str("-bios"), Str(biosPath)>> ELSE <<>>

(***************************************************************************)
(* The argument vector of one instance                                     *)
(***************************************************************************)
\* the config file of instance i: configs/ignition-instance-<i+1>.json
InstanceConfigFile(i) ==
    Str("configs/ignition-instance-") \o Itoa(i + 1) \o Str(".json")

\* the config file written before the loop
CanonicalConfigFile == Str("configs/ignition.json")

\* NetdevArg with a fault: the SSH and the HTTP port change places
NetdevArgSwapped(p) ==
    Concat(<<Str("user,id=net0,hostfwd=tcp::"), p.http,
             Str("-:22,hostfwd=tcp::"), p.docker, Str("-:"), p.docker,
             Str(",hostfwd=tcp::"), p.ssh,
             Str("-:80,hostfwd=tcp::"), p.kubernetes,
             Str("-:6443,hostfwd=tcp::"), p.k0s, Str("-:9443")>>)

\* the -netdev value, with the five forwarded host ports
NetdevArg(p) ==
    Concat(<<Str("user,id=net0,hostfwd=tcp::"), p.ssh,
             Str("-:22,hostfwd=tcp::"), p.docker, Str("-:"), p.docker,
             Str(",hostfwd=tcp::"), p.http,
             Str("-:80,hostfwd=tcp::"), p.kubernetes,
             Str("-:6443,hostfwd=tcp::"), p.k0s, Str("-:9443")>>)

\* instanceVNCPort[len(instanceVNCPort)-1:], the last character
LastChar(s) == SubSeq(s, Len(s), Len(s))

\* AccelArgs with a fault: the configuration is not looked at
AccelArgsAlways(goos, enabled) ==
    CASE goos = "darwin"  -> <<Str("-accel"), Str("hvf")>>
      [] goos = "linux"   -> <<Str("-accel"), Str("kvm")>>
      [] goos = "windows" ->
           <<Str("-accel"), Str("whpx"), Str("-cpu"),
             Str("host,hv_relaxed,hv_spinlocks=0x1fff,hv_vapic,hv_time")>>
      [] OTHER            -> <<>>

\* the flags that depend on the host OS when acceleration is enabled
AccelArgs(goos, enabled) ==
    IF ~enabled THEN <<>>
    ELSE CASE goos = "darwin"  -> <<Str("-accel"), Str("hvf")>>
           [] goos = "linux"   -> <<Str("-accel"), Str("kvm")>>
           [] goos = "windows" ->
                <<Str("-accel"), Str("whpx"), Str("-cpu"),
                  Str("host,hv_relaxed,hv_spinlocks=0x1fff,hv_vapic,hv_time")>>
           [] OTHER            -> <<>>

\* BuildArgs with a fault: the firmware flags are appended before the
\* acceleration flags
BuildArgsBiosFirst(cfg, goos, prof, biosArgs, p, i) ==
    LET base ==
            <<Str("-M"), prof.machine,
              Str("-smp"), cfg.CPUs,
              Str("-m"), cfg.Memory,
              Str("-drive"), Str("file=<absImagePath>,format=qcow2,if=virtio"),
              Str("-netdev"), NetdevArg(p),
              Str("-device"), Str("virtio-net-pci,netdev=net0"),
              Str("-device"), Str("virtio-rng-pci"),
              Str("-vnc"), Str(":") \o LastChar(p.vnc),
              Str("-fw_cfg"),
              Str("name=opt/com.coreos/config,file=") \o InstanceConfigFile(i),
              Str("-global"), Str("kvm-pit.lost_tick_policy=discard"),
              Str("-rtc"), Str("base=utc,driftfix=slew")>>
        serial ==
            IF i = 0 THEN <<Str("-serial"), Str("stdio")>>
            ELSE <<Str("-serial"), Str("null"), Str("-daemonize")>>
        cpu ==
            IF prof.cpu # <<>> /\ ~(goos = "windows" /\ cfg.EnableAcceleration)
            THEN <<Str("-cpu"), prof.cpu>>
            ELSE <<>>
    IN  cpu \o base \o serial \o biosArgs
            \o AccelArgs(goos, cfg.EnableAcceleration) \o cfg.CustomArgs

\* BuildArgs with a fault: the CPU model of the profile is prepended on
\* every host
BuildArgsCpuAlways(cfg, goos, prof, biosArgs, p, i) ==
    LET base ==
            <<Str("-M"), prof.machine,
              Str("-smp"), cfg.CPUs,
              Str("-m"), cfg.Memory,
              Str("-drive"), Str("file=<absImagePath>,format=qcow2,if=virtio"),
              Str("-netdev"), NetdevArg(p),
              Str("-device"), Str("virtio-net-pci,netdev=net0"),
              Str("-device"), Str("virtio-rng-pci"),
              Str("-vnc"), Str(":") \o LastChar(p.vnc),
              Str("-fw_cfg"),
              Str("name=opt/com.coreos/config,file=") \o InstanceConfigFile(i),
              Str("-global"), Str("kvm-pit.lost_tick_policy=discard"),
              Str("-rtc"), Str("base=utc,driftfix=slew")>>
        serial ==
            IF i = 0 THEN <<Str("-serial"), Str("stdio")>>
            ELSE <<Str("-serial"), Str("null"), Str("-daemonize")>>
        cpu ==
            IF prof.cpu # <<>>
            THEN <<Str("-cpu"), prof.cpu>>
            ELSE <<>>
    IN  cpu \o base \o serial \o AccelArgs(goos, cfg.EnableAcceleration)
            \o biosArgs \o cfg.CustomArgs

\* the argument vector of instance i as main() assembles it
BuildArgs(cfg, goos, prof, biosArgs, p, i) ==
    LET base ==
            <<Str("-M"), prof.machine,
              Str("-smp"), cfg.CPUs,
              Str("-m"), cfg.Memory,
              Str("-drive"), Str("file=<absImagePath>,format=qcow2,if=virtio"),
              Str("-netdev"), NetdevArg(p),
              Str("-device"), Str("virtio-net-pci,netdev=net0"),
              Str("-device"), Str("virtio-rng-pci"),
              Str("-vnc"), Str(":") \o LastChar(p.vnc),
              Str("-fw_cfg"),
              Str("name=opt/com.coreos/config,file=") \o InstanceConfigFile(i),
              Str("-global"), Str("kvm-pit.lost_tick_policy=discard"),
              Str("-rtc"), Str("base=utc,driftfix=slew")>>
        serial ==
            IF i = 0 THEN <<Str("-serial"), Str("stdio")>>
            ELSE <<Str("-serial"), Str("null"), Str("-daemonize")>>
        cpu ==
            IF prof.cpu # <<>> /\ ~(goos = "windows" /\ cfg.EnableAcceleration)
            THEN <<Str("-cpu"), prof.cpu>>
            ELSE <<>>
    IN  cpu \o base \o serial \o AccelArgs(goos, cfg.EnableAcceleration)
            \o biosArgs \o cfg.CustomArgs


(***************************************************************************)
(* The state of one host across runs of the program.                       *)
(***************************************************************************)
VARIABLES
    config,          \* the resolved configuration record (loadConfig and flags)
    host,            \* runtime.GOOS and the firmware files present on the host
    pc,              \* the position of main()
    exit,            \* how the run ended: status, failing operation, message
    rerun,           \* TRUE once the program has been started a second time
    start,           \* what existed on disk when this run started
    vmsFile,         \* vms/coreos-<version>-<arch>.xz, the compressed cache
    imagesFile,      \* images/coreos-<version>-<arch>.xz, the staged copy
    qcow2File,       \* images/coreos-<version>-qemu.<arch>.qcow2
    tmpFile,         \* the temp file of the extraction strategy in progress
    strategy,        \* the strategy of extractXZFast in progress
    child,           \* the external decompressor started by this strategy
    publicKeyFile,   \* config.SSH.PublicKeyPath
    privateKeyFile,  \* config.SSH.PrivateKeyPath
    configFiles,     \* the files under configs/, by path
    sshPublicKey,    \* main's sshPublicKey
    ignitionConfig,  \* main's ignitionConfig or instanceIgnitionConfig
    i,               \* the loop index of main's instance loop
    instance,        \* the six derived ports of instance i
    prof,            \* main's prof
    biosArgs,        \* main's biosArgs
    args,            \* the argument vector of instance i
    procs,           \* the hypervisor processes of this run, by instance index
    printed,         \* the connection details printed, one port record per instance
    httpGets,        \* http.Get calls of this run
    extractCalls,    \* extractXZFast calls of this run
    keyGens,         \* generateSSHKeyPair calls of this run
    synthesized,     \* createIgnitionConfig calls of this run
    spawns,          \* hypervisor processes started by this run
    okCalls,         \* ensureCoreOSImage calls that returned nil: 0, 1, 2 = more
    pw,              \* a progressWriter: total, processed, last
    stream,          \* the stream the progressWriter is attached to
    runs,            \* two runs of ensureCoreOSImage in one directory
    disk             \* the files those two runs share

vars ==
    <<config, host, pc, exit, rerun, start, vmsFile, imagesFile, qcow2File,
      tmpFile, strategy, child, publicKeyFile, privateKeyFile, configFiles,
      sshPublicKey, ignitionConfig, i, instance, prof, biosArgs, args, procs,
      printed, httpGets, extractCalls, keyGens, synthesized, spawns, okCalls,
      pw, stream, runs, disk>>

progressVars == <<pw, stream>>

raceVars == <<runs, disk>>

\* the components that are exercised on their own, outside a pipeline run
unitVars == <<progressVars, raceVars>>

\* what no step of a pipeline run changes
envVars == <<config, host, unitVars>>

imageFiles == <<vmsFile, imagesFile, qcow2File>>

extractVars == <<tmpFile, strategy, child>>

keyFiles == <<publicKeyFile, privateKeyFile>>

docVars == <<configFiles, sshPublicKey, ignitionConfig>>

loopVars == <<i, instance, prof, biosArgs, args, printed>>

counters == <<httpGets, extractCalls, keyGens, synthesized, spawns, okCalls>>

(***************************************************************************)
(* Files                                                                   *)
(***************************************************************************)
\* the compressed image is ImageBlocks blocks long, like the image itself
ArchiveBlocks == ImageBlocks

Absent == [exists |-> FALSE, size |-> 0]

File(n) == [exists |-> TRUE, size |-> n]

NoTmp == [exists |-> FALSE, size |-> 0, synced |-> FALSE, open |-> FALSE]

NoKeyFile == [exists |-> FALSE, content |-> <<>>]

KeyFile(c) == [exists |-> TRUE, content |-> c]

NoPrivateKey == [exists |-> FALSE, key |-> "", mode |-> ""]

NoConfigFile == [exists |-> FALSE, content |-> <<>>]

ConfigPaths ==
    {CanonicalConfigFile} \cup {InstanceConfigFile(j) : j \in 0..(MaxInstances - 1)}

\* the blocks a decompressor can produce from the cached archive: all of the
\* image from the whole archive, a prefix from a truncated one
Producible == (vmsFile.size * ImageBlocks) \div ArchiveBlocks

ArchiveComplete == vmsFile.exists /\ vmsFile.size = ArchiveBlocks

(***************************************************************************)
(* Keys.  A pre-existing key is "k"; generated keys are g1, g2, g3.        *)
(***************************************************************************)
GeneratedKeys == <<"g1", "g2", "g3">>

\* rsa.GenerateKey: a key that is on disk nowhere
FreshKey ==
    LET used == {privateKeyFile.key} \cup
                {publicKeyFile.content[k] : k \in 1..Len(publicKeyFile.content)}
    IN  GeneratedKeys[CHOOSE k \in 1..3 :
            /\ GeneratedKeys[k] \notin used
            /\ \A h \in 1..(k - 1) : GeneratedKeys[h] \in used]

\* ssh.MarshalAuthorizedKey: one authorized-key line, newline at the end
MarshalAuthorizedKey(key) == <<"ssh-rsa", "SP", key, "NL">>

\* fmt.Sprintf("%s coreos@container-host", strings.TrimSpace(...))
publicKeyString(key) ==
    TrimSpace(MarshalAuthorizedKey(key)) \o <<"SP", "coreos@container-host">>

(***************************************************************************)
(* Configuration and host                                                  *)
(***************************************************************************)
PortNames == {"ssh", "vnc", "http", "docker", "kubernetes", "k0s"}

\* the order in which main() derives the ports of an instance
PortOrder == <<"ssh", "vnc", "http", "docker", "kubernetes", "k0s">>

\* the defaults loadConfig sets
DefaultPorts ==
    [ssh        |-> <<"2", "2", "2", "2">>,
     vnc        |-> <<"5", "9", "0", "0">>,
     docker     |-> <<"2", "3", "7", "7">>,
     http       |-> <<"8", "0">>,
     kubernetes |-> <<"6", "4", "4", "3">>,
     k0s        |-> <<"9", "4", "4", "3">>]

\* a configuration file with a base port that is no number
BadPorts == [DefaultPorts EXCEPT !.docker = <<"2", "3", "x">>]

DefaultConfig ==
    [Architecture       |-> "aarch64",
     Memory             |-> Str("4096"),
     CPUs               |-> Str("4"),
     Instances          |-> 1,
     ports              |-> DefaultPorts,
     EnableAcceleration |-> TRUE,
     CustomArgs         |-> <<>>]

\* the configurations of the pipeline runs: loadConfig takes the number of
\* instances as the file gives it, zero included
Configs ==
    {[DefaultConfig EXCEPT !.Instances = n, !.ports = p] :
        n \in 0..MaxInstances, p \in {DefaultPorts, BadPorts}}

\* the hosts of the pipeline runs
Hosts ==
    {[goos |-> "darwin",
      firmware |-> {"/opt/homebrew/share/qemu/edk2-aarch64-code.fd"}],
     [goos |-> "linux", firmware |-> {}]}

\* the key files an operator may have put in place before the first run
InitialPublicKeys ==
    {NoKeyFile,
     KeyFile(<<"ssh-rsa", "SP", "k">>),
     KeyFile(<<"ssh-rsa", "SP", "k", "NL">>)}

InitialPrivateKeys ==
    {NoPrivateKey, [exists |-> TRUE, key |-> "k", mode |-> "0644"]}

(***************************************************************************)
(* Control                                                                 *)
(***************************************************************************)
Running == [status |-> "running", cause |-> "none", reported |-> FALSE]

NoPorts == [n \in PortNames |-> <<>>]

NoProfile == [binary |-> <<>>, machine |-> <<>>, cpu |-> <<>>, biosCandidates |-> <<>>]

NoProc == [state |-> "none", foreground |-> FALSE, pidReported |-> FALSE, args |-> <<>>]

NoProcs == [j \in 0..(MaxInstances - 1) |-> NoProc]

Snapshot(cache, image, key) == [cache |-> cache, image |-> image, key |-> key]

\* the next statement of main() is at label l
Goto(l) == pc' = l /\ UNCHANGED exit

\* the process ends with this status after the named operation failed;
\* `reported` says whether an error message was written to stderr
Exit(status, cause, reported) ==
    /\ pc' = "done"
    /\ exit' = [status |-> status, cause |-> cause, reported |-> reported]

\* ImageErr with a fault: main() goes on after ensureCoreOSImage failed
ImageErrIgnored(cause) ==
    /\ pc' = "main_stat"
    /\ exit' = [exit EXCEPT !.cause = cause]

\* ensureCoreOSImage returns an error: main() returns without a message,
\* and a process whose main returns ends with status 0
ImageErr(cause) == Exit("exit0", cause, FALSE)

\* os.Exit(1) after a message on stderr
Fatal(cause) == Exit("exit1", cause, TRUE)

(***************************************************************************)
(* progressWriter                                                          *)
(***************************************************************************)
\* the longest buffer handed to Write
MaxBuf == 2

\* the most Write calls on one stream
MaxWrites == 3

\* the clock, in steps of 100 ms; the zero time.Time is 0 and no reading of
\* time.Now() is
MaxClock == 4

\* no progressWriter has been made
NoWriter == [total |-> -1, processed |-> 0, last |-> 0]

NoStream ==
    [kind |-> "none", now |-> 1, lens |-> <<>>, n |-> 0, err |-> "nil",
     delivered |-> 0, lines |-> 0]

\* the two runs that share a directory
Runs == {1, 2}

\* the names os.CreateTemp can give
TmpNames == {1, 2}

NoRun == [pc |-> "none", result |-> "none", off |-> 0, downloaded |-> FALSE,
          strategy |-> "none", tmp |-> 0, read |-> 0]

\* a block of no file, and the zeros of a gap in a file
Hole == [by |-> 0, k |-> 0]

NoDisk ==
    [cache |-> [exists |-> FALSE, blocks |-> <<>>],
     image |-> [exists |-> FALSE, size |-> 0, by |-> 0],
     temps |-> [n \in TmpNames |-> [exists |-> FALSE, size |-> 0, by |-> 0]]]

RaceIdle == runs = [r \in Runs |-> NoRun] /\ disk = NoDisk

\* the components other than the pipeline are not in use
Idle == pw = NoWriter /\ stream = NoStream /\ RaceIdle

\* whether this Write prints a progress line
Due(w, processed, now) ==
    \/ w.last = 0
    \/ now - w.last >= 2
    \/ w.total > 0 /\ processed >= w.total

\* Write with a fault: a buffer that completes the total is cut to the total
WriteCapped(w, len, now) ==
    LET n == IF w.total > 0 /\ w.processed + len > w.total
             THEN w.total - w.processed
             ELSE len
        processed == w.processed + n
    IN  [pw |-> [w EXCEPT !.processed = processed,
                          !.last = IF Due(w, processed, now) THEN now ELSE @],
         n |-> n, err |-> "nil", printed |-> Due(w, processed, now)]

\* (pw *progressWriter) Write(p) for a buffer of len bytes at time now: the
\* writer afterwards, the two values returned, and whether a line was printed
Write(w, len, now) ==
    LET n == len
        processed == w.processed + n
    IN  [pw |-> [w EXCEPT !.processed = processed,
                          !.last = IF Due(w, processed, now) THEN now ELSE @],
         n |-> n, err |-> "nil", printed |-> Due(w, processed, now)]

TypeOK ==
    /\ pc \in {"start", "img_stat", "img_get", "img_create", "img_copy",
               "img_link", "img_hardlink", "img_copyfile", "img_statq",
               "x_look", "x_tmp", "x_copy", "x_drain",
               "x_wait", "x_sync", "x_close", "x_rename", "main_stat", "key_stat",
               "key_gen", "key_priv", "key_pub", "key_read", "ign_create",
               "ign_validate", "ign_write", "print", "profile", "bios", "loop", "ports",
               "inst_create", "inst_write", "args", "spawn", "wait0", "done"}
    /\ exit.status \in {"running", "exit0", "exit1", "killed"}
    /\ strategy \in {"none", "xz", "unxz", "go"}
    /\ child \in {"none", "running", "blocked", "exit0", "exitErr", "abandoned"}
    /\ i \in 0..MaxInstances

Init ==
    /\ config \in Configs
    /\ host \in Hosts
    /\ pc = "start"
    /\ exit = Running
    /\ rerun = FALSE
    /\ vmsFile = Absent
    /\ imagesFile = Absent
    /\ qcow2File = Absent
    /\ tmpFile = NoTmp
    /\ strategy = "none"
    /\ child = "none"
    /\ publicKeyFile \in InitialPublicKeys
    /\ privateKeyFile \in InitialPrivateKeys
    /\ start = Snapshot(FALSE, FALSE, publicKeyFile.exists)
    /\ configFiles = [f \in ConfigPaths |-> NoConfigFile]
    /\ sshPublicKey = <<>>
    /\ ignitionConfig = <<>>
    /\ i = 0
    /\ instance = NoPorts
    /\ prof = NoProfile
    /\ biosArgs = <<>>
    /\ args = <<>>
    /\ procs = NoProcs
    /\ printed = <<>>
    /\ httpGets = 0
    /\ extractCalls = 0
    /\ keyGens = 0
    /\ synthesized = 0
    /\ spawns = 0
    /\ okCalls = 0
    /\ Idle


(***************************************************************************)
(* ensureCoreOSImage                                                       *)
(***************************************************************************)
\* os.MkdirAll of vms/ and images/
EnsureDirs ==
    /\ pc = "start"
    /\ \E ok \in BOOLEAN : IF ok THEN Goto("img_stat") ELSE ImageErr("mkdir")
    /\ UNCHANGED <<envVars, rerun, start, imageFiles, extractVars, keyFiles,
                   docVars, loopVars, procs, counters>>

\* StatCache with a fault: the cache is not looked at
StatCacheAlwaysDownload ==
    /\ pc = "img_stat"
    /\ Goto("img_get")
    /\ UNCHANGED <<envVars, rerun, start, imageFiles, extractVars, keyFiles,
                   docVars, loopVars, procs, counters>>

\* Download if not cached: os.Stat(vmsFile)
StatCache ==
    /\ pc = "img_stat"
    /\ IF vmsFile.exists THEN Goto("img_link") ELSE Goto("img_get")
    /\ UNCHANGED <<envVars, rerun, start, imageFiles, extractVars, keyFiles,
                   docVars, loopVars, procs, counters>>

\* HttpGet with a fault: the cache file is created before the request is
\* made
HttpGetCreateFirst ==
    /\ pc = "img_get"
    /\ httpGets' = httpGets + 1
    /\ vmsFile' = File(0)
    /\ \E r \in {"ok", "error", "status"} :
          IF r = "ok" THEN Goto("img_copy")
          ELSE ImageErr(IF r = "error" THEN "download" ELSE "http status")
    /\ UNCHANGED <<envVars, rerun, start, imagesFile, qcow2File, extractVars,
                   keyFiles, docVars, loopVars, procs, extractCalls, keyGens,
                   synthesized, spawns, okCalls>>

\* http.Get(url) and the check of the status code
HttpGet ==
    /\ pc = "img_get"
    /\ httpGets' = httpGets + 1
    /\ \E r \in {"ok", "error", "status"} :
          IF r = "ok" THEN Goto("img_create")
          ELSE ImageErr(IF r = "error" THEN "download" ELSE "http status")
    /\ UNCHANGED <<envVars, rerun, start, imageFiles, extractVars, keyFiles,
                   docVars, loopVars, procs, extractCalls, keyGens, synthesized,
                   spawns, okCalls>>

\* os.Create(vmsFile)
CreateCache ==
    /\ pc = "img_create"
    /\ \E ok \in BOOLEAN :
          IF ok THEN vmsFile' = File(0) /\ Goto("img_copy")
          ELSE UNCHANGED vmsFile /\ ImageErr("create")
    /\ UNCHANGED <<envVars, rerun, start, imagesFile, qcow2File, extractVars,
                   keyFiles, docVars, loopVars, procs, counters>>

\* CopyBody with a fault: the file of a download that failed is removed
CopyBodyRemovePartial ==
    /\ pc = "img_copy"
    /\ \E n \in 0..ArchiveBlocks :
          IF n = ArchiveBlocks
          THEN vmsFile' = File(n) /\ Goto("img_link")
          ELSE vmsFile' = Absent /\ ImageErr("save")
    /\ UNCHANGED <<envVars, rerun, start, imagesFile, qcow2File, extractVars,
                   keyFiles, docVars, loopVars, procs, counters>>

\* io.Copy of the response body into the cache file: n blocks arrive
CopyBody ==
    /\ pc = "img_copy"
    /\ \E n \in 0..ArchiveBlocks :
          /\ vmsFile' = File(n)
          /\ IF n = ArchiveBlocks THEN Goto("img_link") ELSE ImageErr("save")
    /\ UNCHANGED <<envVars, rerun, start, imagesFile, qcow2File, extractVars,
                   keyFiles, docVars, loopVars, procs, counters>>

\* LinkOrCopy with a fault: a staged file is kept whatever its size
LinkOrCopyKeepAny ==
    /\ pc = "img_link"
    /\ IF imagesFile.exists THEN Goto("img_statq") ELSE Goto("img_hardlink")
    /\ UNCHANGED <<envVars, rerun, start, imageFiles, extractVars, keyFiles,
                   docVars, loopVars, procs, counters>>

\* linkOrCopy(vmsFile, imagesFile): os.Stat of both files, and os.Remove of
\* a staged file that has another size; the error of os.Remove is dropped
LinkOrCopy ==
    /\ pc = "img_link"
    /\ IF imagesFile.exists
       THEN IF vmsFile.exists /\ imagesFile.size = vmsFile.size
            THEN UNCHANGED imagesFile /\ Goto("img_statq")
            ELSE imagesFile' = Absent /\ Goto("img_hardlink")
       ELSE UNCHANGED imagesFile /\ Goto("img_hardlink")
    /\ UNCHANGED <<envVars, rerun, start, vmsFile, qcow2File, extractVars,
                   keyFiles, docVars, loopVars, procs, counters>>

\* linkOrCopy: os.Link(src, dst); copyFile is called when it fails
Link ==
    /\ pc = "img_hardlink"
    /\ \E ok \in BOOLEAN :
          IF ok /\ vmsFile.exists /\ ~imagesFile.exists
          THEN imagesFile' = vmsFile /\ Goto("img_statq")
          ELSE UNCHANGED imagesFile /\ Goto("img_copyfile")
    /\ UNCHANGED <<envVars, rerun, start, vmsFile, qcow2File, extractVars,
                   keyFiles, docVars, loopVars, procs, counters>>

\* copyFile: os.Open(srcPath), os.Create(dstPath), io.Copy
CopyFile ==
    /\ pc = "img_copyfile"
    /\ \E r \in {"copy", "short", "open", "create"} :
          CASE r = "copy" /\ vmsFile.exists ->
                  imagesFile' = vmsFile /\ Goto("img_statq")
            [] r = "short" /\ vmsFile.exists /\ vmsFile.size > 0 ->
                  imagesFile' = File(vmsFile.size - 1) /\ ImageErr("place")
            [] OTHER ->
                  UNCHANGED imagesFile /\ ImageErr("place")
    /\ UNCHANGED <<envVars, rerun, start, vmsFile, qcow2File, extractVars,
                   keyFiles, docVars, loopVars, procs, counters>>

\* ensureCoreOSImage returns nil
ImageOk ==
    /\ okCalls' = IF okCalls = 0 THEN 1 ELSE 2
    /\ Goto("main_stat")

\* StatImage with a fault: the image is extracted whether it is there or not
StatImageAlwaysExtract ==
    /\ pc = "img_statq"
    /\ Goto("x_look")
    /\ strategy' = "xz"
    /\ extractCalls' = extractCalls + 1
    /\ UNCHANGED <<envVars, rerun, start, imageFiles, tmpFile, child, keyFiles,
                   docVars, loopVars, procs, httpGets, keyGens, synthesized,
                   spawns, okCalls>>

\* Extract into .qcow2 if needed: os.Stat(qcow2File)
StatImage ==
    /\ pc = "img_statq"
    /\ IF qcow2File.exists
       THEN ImageOk /\ UNCHANGED <<strategy, extractCalls>>
       ELSE /\ Goto("x_look")
            /\ strategy' = "xz"
            /\ extractCalls' = extractCalls + 1
            /\ UNCHANGED okCalls
    /\ UNCHANGED <<envVars, rerun, start, imageFiles, tmpFile, child, keyFiles,
                   docVars, loopVars, procs, httpGets, keyGens, synthesized,
                   spawns>>

(***************************************************************************)
(* extractXZFast, extractWithExternalXZ and extractWithGoXZ                *)
(***************************************************************************)
\* StrategyFailed with a fault: the error of the first strategy that fails
\* is returned
StrategyFailedNoFallback == strategy' = "none" /\ ImageErr("extract")

\* StrategyFailed with a fault: after the last strategy the first one is
\* tried again
StrategyFailedAgain ==
    /\ strategy' = (IF strategy = "xz" THEN "unxz"
                    ELSE IF strategy = "unxz" THEN "go" ELSE "xz")
    /\ Goto("x_look")

\* the strategy in progress returned an error: extractXZFast goes to the
\* next one, and returns the error of the last one
StrategyFailed ==
    IF strategy = "go"
    THEN strategy' = "none" /\ ImageErr("extract")
    ELSE strategy' = (IF strategy = "xz" THEN "unxz" ELSE "go") /\ Goto("x_look")

\* Cleanup with a fault: the temp file is closed and not removed
CleanupKeepsFile == tmpFile' = [tmpFile EXCEPT !.open = FALSE]

\* the deferred tmp.Close() and os.Remove(tmp.Name())
Cleanup == tmpFile' = NoTmp

\* exec.LookPath and cmd.Start of xz or unxz; os.Open and xz.NewReader
XLook ==
    /\ pc = "x_look"
    /\ IF strategy = "go"
       THEN \E r \in {"opened", "failed"} :
              IF r = "opened" /\ vmsFile.exists /\ vmsFile.size > 0
              THEN Goto("x_tmp") /\ UNCHANGED <<strategy, child>>
              ELSE StrategyFailed /\ UNCHANGED child
       ELSE \E r \in {"started", "notfound", "startfail"} :
              IF r = "started"
              THEN child' = "running" /\ Goto("x_tmp") /\ UNCHANGED strategy
              ELSE StrategyFailed /\ UNCHANGED child
    /\ UNCHANGED <<envVars, rerun, start, imageFiles, tmpFile, keyFiles, docVars,
                   loopVars, procs, counters>>

\* os.CreateTemp in the directory of the target; when it fails the strategy
\* returns, and a decompressor it has started is left as it is, with no
\* cmd.Wait() and nobody at its pipes
XCreateTemp ==
    /\ pc = "x_tmp"
    /\ \E ok \in BOOLEAN :
          IF ok
          THEN /\ tmpFile' = [exists |-> TRUE, size |-> 0, synced |-> FALSE,
                              open |-> TRUE]
               /\ Goto("x_copy")
               /\ UNCHANGED <<strategy, child>>
          ELSE /\ UNCHANGED tmpFile
               /\ child' = IF strategy = "go" THEN child ELSE "abandoned"
               /\ StrategyFailed
    /\ UNCHANGED <<envVars, rerun, start, imageFiles, keyFiles, docVars,
                   loopVars, procs, counters>>

\* io.Copy moves one more block from the decompressor into the temp file
XCopyBlock ==
    /\ pc = "x_copy"
    /\ tmpFile.size < Producible
    /\ strategy = "go" \/ child = "running"
    /\ tmpFile' = [tmpFile EXCEPT !.size = @ + 1]
    /\ UNCHANGED <<envVars, pc, exit, rerun, start, imageFiles, strategy, child,
                   keyFiles, docVars, loopVars, procs, counters>>

\* a write to the temp file fails: io.Copy returns the error
XWriteError ==
    /\ pc = "x_copy"
    /\ tmpFile.size < Producible
    /\ strategy = "go" \/ child = "running"
    /\ IF strategy = "go"
       THEN Cleanup /\ StrategyFailed
       ELSE Goto("x_drain") /\ UNCHANGED <<tmpFile, strategy>>
    /\ UNCHANGED <<envVars, rerun, start, imageFiles, child, keyFiles, docVars,
                   loopVars, procs, counters>>

\* the external decompressor has filled the pipe of its stderr, which the
\* strategy reads only after the copy: it waits in that write
ChildStderrFull ==
    /\ pc \in {"x_tmp", "x_copy"}
    /\ strategy # "go"
    /\ child = "running"
    /\ child' = "blocked"
    /\ UNCHANGED <<envVars, pc, exit, rerun, start, imageFiles, tmpFile, strategy,
                   keyFiles, docVars, loopVars, procs, counters>>

\* the external decompressor ends: with status 0 once all of its output has
\* been taken from the pipe, with an error (or killed) at any time
ChildExit ==
    /\ child \in {"running", "blocked"}
    /\ \E code \in {"exit0", "exitErr"} :
          /\ code = "exit0" =>
                /\ child = "running"
                /\ ArchiveComplete
                /\ tmpFile.exists
                /\ \/ pc = "x_copy" /\ tmpFile.size = ImageBlocks
                   \/ pc = "x_drain" /\ tmpFile.size + 1 = ImageBlocks
          /\ child' = code
    /\ UNCHANGED <<envVars, pc, exit, rerun, start, imageFiles, tmpFile, strategy,
                   keyFiles, docVars, loopVars, procs, counters>>

\* XCopyEOF with a fault: the exit status of the decompressor is not checked
XCopyEOFNoWait ==
    /\ pc = "x_copy"
    /\ strategy # "go"
    /\ child \in {"exit0", "exitErr"}
    /\ child' = "none"
    /\ Goto("x_sync")
    /\ UNCHANGED <<envVars, rerun, start, imageFiles, tmpFile, strategy, keyFiles,
                   docVars, loopVars, procs, counters>>

\* io.Copy reads EOF from the pipe of a decompressor that has ended
XCopyEOF ==
    /\ pc = "x_copy"
    /\ strategy # "go"
    /\ child \in {"exit0", "exitErr"}
    /\ Goto("x_wait")
    /\ UNCHANGED <<envVars, rerun, start, imageFiles, extractVars, keyFiles,
                   docVars, loopVars, procs, counters>>

\* io.CopyBuffer of the in-process reader ends: at the end of a whole
\* stream without error, at the end of a truncated one with an error
GoCopyEnd ==
    /\ pc = "x_copy"
    /\ strategy = "go"
    /\ tmpFile.size = Producible
    /\ IF ArchiveComplete
       THEN Goto("x_sync") /\ UNCHANGED <<tmpFile, strategy>>
       ELSE Cleanup /\ StrategyFailed
    /\ UNCHANGED <<envVars, rerun, start, imageFiles, child, keyFiles, docVars,
                   loopVars, procs, counters>>

\* cmd.Wait() after the copy
XWait ==
    /\ pc = "x_wait"
    /\ child' = "none"
    /\ IF child = "exit0"
       THEN Goto("x_sync") /\ UNCHANGED <<tmpFile, strategy>>
       ELSE Cleanup /\ StrategyFailed
    /\ UNCHANGED <<envVars, rerun, start, imageFiles, keyFiles, docVars,
                   loopVars, procs, counters>>

\* io.ReadAll(stderr) and cmd.Wait() after a failed copy: both return when
\* the decompressor has ended
XDrain ==
    /\ pc = "x_drain"
    /\ child \in {"exit0", "exitErr"}
    /\ child' = "none"
    /\ Cleanup
    /\ StrategyFailed
    /\ UNCHANGED <<envVars, rerun, start, imageFiles, keyFiles, docVars,
                   loopVars, procs, counters>>

\* tmp.Sync()
XSync ==
    /\ pc = "x_sync"
    /\ \E ok \in BOOLEAN :
          IF ok
          THEN /\ tmpFile' = [tmpFile EXCEPT !.synced = TRUE]
               /\ Goto("x_close")
               /\ UNCHANGED strategy
          ELSE Cleanup /\ StrategyFailed
    /\ UNCHANGED <<envVars, rerun, start, imageFiles, child, keyFiles, docVars,
                   loopVars, procs, counters>>

\* tmp.Close()
XClose ==
    /\ pc = "x_close"
    /\ \E ok \in BOOLEAN :
          IF ok
          THEN /\ tmpFile' = [tmpFile EXCEPT !.open = FALSE]
               /\ Goto("x_rename")
               /\ UNCHANGED strategy
          ELSE Cleanup /\ StrategyFailed
    /\ UNCHANGED <<envVars, rerun, start, imageFiles, child, keyFiles, docVars,
                   loopVars, procs, counters>>

\* os.Rename(tmp.Name(), dstPath); the deferred remove then finds no file
XRename ==
    /\ pc = "x_rename"
    /\ \E ok \in BOOLEAN :
          IF ok
          THEN /\ qcow2File' = File(tmpFile.size)
               /\ tmpFile' = NoTmp
               /\ strategy' = "none"
               /\ ImageOk
          ELSE /\ UNCHANGED <<qcow2File, okCalls>>
               /\ Cleanup
               /\ StrategyFailed
    /\ UNCHANGED <<envVars, rerun, start, vmsFile, imagesFile, child, keyFiles,
                   docVars, loopVars, procs, httpGets, extractCalls, keyGens,
                   synthesized, spawns>>

(***************************************************************************)
(* main(): the shared prerequisites                                        *)
(***************************************************************************)
\* Check if VM image exists
MainStatImage ==
    /\ pc = "main_stat"
    /\ IF qcow2File.exists THEN Goto("key_stat") ELSE Fatal("image missing")
    /\ UNCHANGED <<envVars, rerun, start, imageFiles, extractVars, keyFiles,
                   docVars, loopVars, procs, counters>>

\* KeyStat with a fault: the private key file is the one looked at
KeyStatPrivate ==
    /\ pc = "key_stat"
    /\ IF privateKeyFile.exists
       THEN Goto("key_read") /\ UNCHANGED keyGens
       ELSE Goto("key_gen") /\ keyGens' = keyGens + 1
    /\ UNCHANGED <<envVars, rerun, start, imageFiles, extractVars, keyFiles,
                   docVars, loopVars, procs, httpGets, extractCalls, synthesized,
                   spawns, okCalls>>

\* Check if SSH public key exists, generate if needed
KeyStat ==
    /\ pc = "key_stat"
    /\ IF publicKeyFile.exists
       THEN Goto("key_read") /\ UNCHANGED keyGens
       ELSE Goto("key_gen") /\ keyGens' = keyGens + 1
    /\ UNCHANGED <<envVars, rerun, start, imageFiles, extractVars, keyFiles,
                   docVars, loopVars, procs, httpGets, extractCalls, synthesized,
                   spawns, okCalls>>

\* generateSSHKeyPair: rsa.GenerateKey, Validate, os.MkdirAll
KeyGenerate ==
    /\ pc = "key_gen"
    /\ \E ok \in BOOLEAN : IF ok THEN Goto("key_priv") ELSE Fatal("keygen")
    /\ UNCHANGED <<envVars, rerun, start, imageFiles, extractVars, keyFiles,
                   docVars, loopVars, procs, counters>>

\* KeyWritePrivate with a fault: the error of pem.Encode is dropped
KeyWritePrivateErrorDropped ==
    /\ pc = "key_priv"
    /\ \E r \in {"ok", "open", "write"} :
          CASE r = "ok" ->
                  /\ privateKeyFile' =
                        [exists |-> TRUE, key |-> FreshKey,
                         mode |-> IF privateKeyFile.exists
                                  THEN privateKeyFile.mode ELSE "0600"]
                  /\ Goto("key_pub")
            [] r = "open" ->
                  /\ UNCHANGED privateKeyFile
                  /\ Fatal("keygen")
            [] OTHER ->
                  /\ privateKeyFile' =
                        [exists |-> TRUE, key |-> "",
                         mode |-> IF privateKeyFile.exists
                                  THEN privateKeyFile.mode ELSE "0600"]
                  /\ Goto("key_pub")
    /\ UNCHANGED <<envVars, rerun, start, imageFiles, extractVars, publicKeyFile,
                   docVars, loopVars, procs, counters>>

\* generateSSHKeyPair: os.OpenFile(privateKeyPath, ..., 0600), pem.Encode.
\* The mode is given to a file that is created, and an existing file keeps
\* the mode it has.
KeyWritePrivate ==
    /\ pc = "key_priv"
    /\ \E r \in {"ok", "open", "write"} :
          CASE r = "ok" ->
                  /\ privateKeyFile' =
                        [exists |-> TRUE, key |-> FreshKey,
                         mode |-> IF privateKeyFile.exists
                                  THEN privateKeyFile.mode ELSE "0600"]
                  /\ Goto("key_pub")
            [] r = "open" ->
                  /\ UNCHANGED privateKeyFile
                  /\ Fatal("keygen")
            [] OTHER ->
                  /\ privateKeyFile' =
                        [exists |-> TRUE, key |-> "",
                         mode |-> IF privateKeyFile.exists
                                  THEN privateKeyFile.mode ELSE "0600"]
                  /\ Fatal("keygen")
    /\ UNCHANGED <<envVars, rerun, start, imageFiles, extractVars, publicKeyFile,
                   docVars, loopVars, procs, counters>>

\* generateSSHKeyPair: ssh.NewPublicKey, os.WriteFile(publicKeyPath, ..., 0644)
KeyWritePublic ==
    /\ pc = "key_pub"
    /\ \E r \in {"ok", "open", "write"} :
          CASE r = "ok" ->
                  /\ publicKeyFile' = KeyFile(publicKeyString(privateKeyFile.key))
                  /\ Goto("key_read")
            [] r = "open" ->
                  /\ UNCHANGED publicKeyFile
                  /\ Fatal("keygen")
            [] OTHER ->
                  /\ publicKeyFile' = KeyFile(<<>>)
                  /\ Fatal("keygen")
    /\ UNCHANGED <<envVars, rerun, start, imageFiles, extractVars, privateKeyFile,
                   docVars, loopVars, procs, counters>>

\* KeyRead with a fault: main() goes on when the key cannot be read
KeyReadIgnored ==
    /\ pc = "key_read"
    /\ \E ok \in BOOLEAN :
          IF ok /\ publicKeyFile.exists
          THEN sshPublicKey' = publicKeyFile.content /\ Goto("ign_create")
          ELSE UNCHANGED sshPublicKey /\ Goto("ign_create")
    /\ UNCHANGED <<envVars, rerun, start, imageFiles, extractVars, keyFiles,
                   configFiles, ignitionConfig, loopVars, procs, counters>>

\* readSSHPublicKey
KeyRead ==
    /\ pc = "key_read"
    /\ \E ok \in BOOLEAN :
          IF ok /\ publicKeyFile.exists
          THEN sshPublicKey' = publicKeyFile.content /\ Goto("ign_create")
          ELSE UNCHANGED sshPublicKey /\ Fatal("keyread")
    /\ UNCHANGED <<envVars, rerun, start, imageFiles, extractVars, keyFiles,
                   configFiles, ignitionConfig, loopVars, procs, counters>>

\* Create Ignition configuration, with the base Docker port
CreateIgnition ==
    /\ pc = "ign_create"
    /\ ignitionConfig' = createIgnitionConfig(sshPublicKey, config.ports.docker)
    /\ synthesized' = synthesized + 1
    /\ Goto("ign_validate")
    /\ UNCHANGED <<envVars, rerun, start, imageFiles, extractVars, keyFiles,
                   configFiles, sshPublicKey, loopVars, procs, httpGets,
                   extractCalls, keyGens, spawns, okCalls>>

\* Validate JSON by unmarshaling it back: only the error is looked at
Validate ==
    /\ pc = "ign_validate"
    /\ IF Unmarshal(ignitionConfig).err THEN Fatal("validate") ELSE Goto("ign_write")
    /\ UNCHANGED <<envVars, rerun, start, imageFiles, extractVars, keyFiles,
                   docVars, loopVars, procs, counters>>

\* Write ignition config to configs/ignition.json
WriteConfig ==
    /\ pc = "ign_write"
    /\ \E ok \in BOOLEAN :
          IF ok
          THEN /\ configFiles' = [configFiles EXCEPT ![CanonicalConfigFile] =
                                     [exists |-> TRUE, content |-> ignitionConfig]]
               /\ Goto("print")
          ELSE UNCHANGED configFiles /\ Fatal("write")
    /\ UNCHANGED <<envVars, rerun, start, imageFiles, extractVars, keyFiles,
                   sshPublicKey, ignitionConfig, loopVars, procs, counters>>

\* the six ports of instance j, in the order main() derives them
DerivePorts(j) == [n \in PortNames |-> calculatePort(config.ports[n], j)]

\* Print connection details before starting VMs: the errors of
\* calculatePort are dropped here
PrintDetails ==
    /\ pc = "print"
    /\ IF i < config.Instances
       THEN /\ printed' = Append(printed, [n \in PortNames |-> DerivePorts(i)[n].port])
            /\ i' = i + 1
            /\ UNCHANGED <<pc, exit>>
       ELSE /\ i' = 0
            /\ Goto("profile")
            /\ UNCHANGED printed
    /\ UNCHANGED <<envVars, rerun, start, imageFiles, extractVars, keyFiles,
                   docVars, instance, prof, biosArgs, args, procs, counters>>

\* prof := profileForArch(*arch); exec.LookPath(prof.binary)
Profile ==
    /\ pc = "profile"
    /\ prof' = profileForArch(config.Architecture)
    /\ \E found \in BOOLEAN : IF found THEN Goto("bios") ELSE Fatal("lookpath")
    /\ UNCHANGED <<envVars, rerun, start, imageFiles, extractVars, keyFiles,
                   docVars, i, instance, biosArgs, args, printed, procs, counters>>

\* Resolve BIOS path if any
Bios ==
    /\ pc = "bios"
    /\ biosArgs' = BiosArgs(prof, host.firmware)
    /\ Goto("loop")
    /\ UNCHANGED <<envVars, rerun, start, imageFiles, extractVars, keyFiles,
                   docVars, i, instance, prof, args, printed, procs, counters>>

(***************************************************************************)
(* main(): the instance loop                                               *)
(***************************************************************************)
\* for i := 0; i < config.VM.Instances; i++ ; main() returns after the loop
LoopHead ==
    /\ pc = "loop"
    /\ IF i < config.Instances THEN Goto("ports") ELSE Exit("exit0", "none", FALSE)
    /\ UNCHANGED <<envVars, rerun, start, imageFiles, extractVars, keyFiles,
                   docVars, loopVars, procs, counters>>

\* Ports with a fault: the errors of calculatePort are dropped as they are
\* in the loop that prints the ports
PortsErrorsDropped ==
    /\ pc = "ports"
    /\ instance' = [n \in PortNames |-> DerivePorts(i)[n].port]
    /\ Goto("inst_create")
    /\ UNCHANGED <<envVars, rerun, start, imageFiles, extractVars, keyFiles,
                   docVars, i, prof, biosArgs, args, printed, procs, counters>>

\* Calculate ports for this instance: the first error ends the run
Ports ==
    /\ pc = "ports"
    /\ LET r == DerivePorts(i)
       IN  IF \E k \in 1..Len(PortOrder) : r[PortOrder[k]].err
           THEN UNCHANGED instance /\ Fatal("port")
           ELSE instance' = [n \in PortNames |-> r[n].port] /\ Goto("inst_create")
    /\ UNCHANGED <<envVars, rerun, start, imageFiles, extractVars, keyFiles,
                   docVars, i, prof, biosArgs, args, printed, procs, counters>>

\* InstanceIgnition with a fault: every instance gets the forwarder of the
\* base port
InstanceIgnitionBasePort ==
    /\ pc = "inst_create"
    /\ ignitionConfig' = createIgnitionConfig(sshPublicKey, config.ports.docker)
    /\ synthesized' = synthesized + 1
    /\ Goto("inst_write")
    /\ UNCHANGED <<envVars, rerun, start, imageFiles, extractVars, keyFiles,
                   configFiles, sshPublicKey, loopVars, procs, httpGets,
                   extractCalls, keyGens, spawns, okCalls>>

\* InstanceIgnition with a fault: the key of an instance carries the index
\* of the instance
InstanceIgnitionOwnKey ==
    /\ pc = "inst_create"
    /\ ignitionConfig' = createIgnitionConfig(sshPublicKey \o Itoa(i), instance.docker)
    /\ synthesized' = synthesized + 1
    /\ Goto("inst_write")
    /\ UNCHANGED <<envVars, rerun, start, imageFiles, extractVars, keyFiles,
                   configFiles, sshPublicKey, loopVars, procs, httpGets,
                   extractCalls, keyGens, spawns, okCalls>>

\* Create ignition config for this instance with the correct Docker port
InstanceIgnition ==
    /\ pc = "inst_create"
    /\ ignitionConfig' = createIgnitionConfig(sshPublicKey, instance.docker)
    /\ synthesized' = synthesized + 1
    /\ Goto("inst_write")
    /\ UNCHANGED <<envVars, rerun, start, imageFiles, extractVars, keyFiles,
                   configFiles, sshPublicKey, loopVars, procs, httpGets,
                   extractCalls, keyGens, spawns, okCalls>>

\* InstanceWrite with a fault: the document goes to the file written before
\* the loop
InstanceWriteCanonical ==
    /\ pc = "inst_write"
    /\ \E ok \in BOOLEAN :
          IF ok
          THEN /\ configFiles' = [configFiles EXCEPT ![CanonicalConfigFile] =
                                     [exists |-> TRUE, content |-> ignitionConfig]]
               /\ Goto("args")
          ELSE UNCHANGED configFiles /\ Fatal("write")
    /\ UNCHANGED <<envVars, rerun, start, imageFiles, extractVars, keyFiles,
                   sshPublicKey, ignitionConfig, loopVars, procs, counters>>

\* Write instance-specific ignition config
InstanceWrite ==
    /\ pc = "inst_write"
    /\ \E ok \in BOOLEAN :
          IF ok
          THEN /\ configFiles' = [configFiles EXCEPT ![InstanceConfigFile(i)] =
                                     [exists |-> TRUE, content |-> ignitionConfig]]
               /\ Goto("args")
          ELSE UNCHANGED configFiles /\ Fatal("write")
    /\ UNCHANGED <<envVars, rerun, start, imageFiles, extractVars, keyFiles,
                   sshPublicKey, ignitionConfig, loopVars, procs, counters>>

\* args := []string{...} and everything appended to it
Args ==
    /\ pc = "args"
    /\ args' = BuildArgs(config, host.goos, prof, biosArgs, instance, i)
    /\ Goto("spawn")
    /\ UNCHANGED <<envVars, rerun, start, imageFiles, extractVars, keyFiles,
                   docVars, i, instance, prof, biosArgs, printed, procs, counters>>

\* the process of instance i as it is right after it was started
Started == [state |-> "running", foreground |-> (i = 0), pidReported |-> (i # 0),
            args |-> args]

\* Spawn with a fault: the first instance is started like the others
SpawnNoWait ==
    /\ pc = "spawn"
    /\ \E ok \in BOOLEAN :
          IF ok
          THEN /\ procs' = [procs EXCEPT ![i] = Started]
               /\ spawns' = spawns + 1
               /\ i' = i + 1
               /\ Goto("loop")
          ELSE UNCHANGED <<procs, spawns, i>> /\ Fatal("spawn")
    /\ UNCHANGED <<envVars, rerun, start, imageFiles, extractVars, keyFiles,
                   docVars, instance, prof, biosArgs, args, printed, httpGets,
                   extractCalls, keyGens, synthesized, okCalls>>

\* exec.Command; qemuCmd.Run() for the first instance, qemuCmd.Start() and
\* the PID message for the others
Spawn ==
    /\ pc = "spawn"
    /\ \E ok \in BOOLEAN :
          IF ok
          THEN /\ procs' = [procs EXCEPT ![i] = Started]
               /\ spawns' = spawns + 1
               /\ IF i = 0
                  THEN UNCHANGED i /\ Goto("wait0")
                  ELSE i' = i + 1 /\ Goto("loop")
          ELSE UNCHANGED <<procs, spawns, i>> /\ Fatal("spawn")
    /\ UNCHANGED <<envVars, rerun, start, imageFiles, extractVars, keyFiles,
                   docVars, instance, prof, biosArgs, args, printed, httpGets,
                   extractCalls, keyGens, synthesized, okCalls>>

\* Wait0 with a fault: an error of the first instance is not looked at
Wait0IgnoreError ==
    /\ pc = "wait0"
    /\ procs[0].state \in {"exit0", "exitErr"}
    /\ i' = i + 1
    /\ Goto("loop")
    /\ UNCHANGED <<envVars, rerun, start, imageFiles, extractVars, keyFiles,
                   docVars, instance, prof, biosArgs, args, printed, procs,
                   counters>>

\* Wait0 with a fault: the loop index is advanced by two
Wait0SkipOne ==
    /\ pc = "wait0"
    /\ procs[0].state \in {"exit0", "exitErr"}
    /\ IF procs[0].state = "exit0"
       THEN i' = (IF i + 2 < MaxInstances THEN i + 2 ELSE MaxInstances) /\ Goto("loop")
       ELSE UNCHANGED i /\ Fatal("run")
    /\ UNCHANGED <<envVars, rerun, start, imageFiles, extractVars, keyFiles,
                   docVars, instance, prof, biosArgs, args, printed, procs,
                   counters>>

\* qemuCmd.Run() returns when the first instance has ended
Wait0 ==
    /\ pc = "wait0"
    /\ procs[0].state \in {"exit0", "exitErr"}
    /\ IF procs[0].state = "exit0"
       THEN i' = i + 1 /\ Goto("loop")
       ELSE UNCHANGED i /\ Fatal("run")
    /\ UNCHANGED <<envVars, rerun, start, imageFiles, extractVars, keyFiles,
                   docVars, instance, prof, biosArgs, args, printed, procs,
                   counters>>

\* a hypervisor process ends
ProcExit(j) ==
    /\ procs[j].state = "running"
    /\ \E code \in {"exit0", "exitErr"} :
          procs' = [procs EXCEPT ![j].state = code]
    /\ UNCHANGED <<envVars, pc, exit, rerun, start, imageFiles, extractVars,
                   keyFiles, docVars, loopVars, counters>>

(***************************************************************************)
(* The environment of a run                                                *)
(***************************************************************************)
\* the orchestrator is killed: what it wrote stays as it is, and a
\* decompressor it had started is no longer waited for
Crash ==
    /\ pc # "done"
    /\ Exit("killed", "killed", FALSE)
    /\ child' = "none"
    /\ UNCHANGED <<envVars, rerun, start, imageFiles, tmpFile, strategy, keyFiles,
                   docVars, loopVars, procs, counters>>

\* the operator starts the program again in the same directory
Restart ==
    /\ pc = "done"
    /\ pc' = "start"
    /\ exit' = Running
    /\ rerun' = TRUE
    /\ start' = Snapshot(vmsFile.exists, qcow2File.exists, publicKeyFile.exists)
    /\ strategy' = "none"
    /\ child' = "none"
    /\ sshPublicKey' = <<>>
    /\ ignitionConfig' = <<>>
    /\ i' = 0
    /\ instance' = NoPorts
    /\ prof' = NoProfile
    /\ biosArgs' = <<>>
    /\ args' = <<>>
    /\ printed' = <<>>
    /\ procs' = NoProcs
    /\ httpGets' = 0
    /\ extractCalls' = 0
    /\ keyGens' = 0
    /\ synthesized' = 0
    /\ spawns' = 0
    /\ UNCHANGED <<envVars, imageFiles, tmpFile, keyFiles, configFiles, okCalls>>

Next ==
    \/ EnsureDirs \/ StatCache \/ HttpGet \/ CreateCache \/ CopyBody
    \/ LinkOrCopy \/ Link \/ CopyFile \/ StatImage
    \/ XLook \/ XCreateTemp \/ XCopyBlock \/ XWriteError \/ ChildStderrFull
    \/ ChildExit
    \/ XCopyEOF \/ GoCopyEnd \/ XWait \/ XDrain \/ XSync \/ XClose \/ XRename
    \/ MainStatImage \/ KeyStat \/ KeyGenerate \/ KeyWritePrivate
    \/ KeyWritePublic \/ KeyRead
    \/ CreateIgnition \/ Validate \/ WriteConfig \/ PrintDetails
    \/ Profile \/ Bios
    \/ LoopHead \/ Ports \/ InstanceIgnition \/ InstanceWrite \/ Args
    \/ Spawn \/ Wait0
    \/ \E j \in 0..(MaxInstances - 1) : ProcExit(j)
    \/ Crash \/ Restart

Spec == Init /\ [][Next]_vars

\* a step of the run in progress, of a decompressor or of a hypervisor,
\* other than the three steps that build or decode a document
RunStep ==
    \/ EnsureDirs \/ StatCache \/ HttpGet \/ CreateCache \/ CopyBody
    \/ LinkOrCopy \/ Link \/ CopyFile \/ StatImage
    \/ XLook \/ XCreateTemp \/ XCopyBlock \/ XWriteError \/ ChildStderrFull
    \/ ChildExit
    \/ XCopyEOF \/ GoCopyEnd \/ XWait \/ XDrain \/ XSync \/ XClose \/ XRename
    \/ MainStatImage \/ KeyStat \/ KeyGenerate \/ KeyWritePrivate
    \/ KeyWritePublic \/ KeyRead
    \/ WriteConfig \/ PrintDetails
    \/ Profile \/ Bios
    \/ LoopHead \/ Ports \/ InstanceWrite \/ Args
    \/ Spawn \/ Wait0
    \/ \E j \in 0..(MaxInstances - 1) : ProcExit(j)

\* the three steps that build or decode a document
DocStep == CreateIgnition \/ Validate \/ InstanceIgnition

\* where DocStep can be taken: each of the three is a computation without
\* a wait, enabled whenever main() is at its label
DocLabels == {"ign_create", "ign_validate", "inst_create"}

\* one run, which may be killed
NextRun == RunStep \/ DocStep \/ Crash

\* one run when every operation it waits for comes to an end: a system call
\* and a request return, a decompressor and a hypervisor end.  The last
\* conjunct is WF_vars(DocStep), written with the labels at which DocStep is
\* enabled.
SpecFair ==
    /\ Init
    /\ [][NextRun]_vars
    /\ WF_vars(RunStep)
    /\ []<>(pc \notin DocLabels)

(***************************************************************************)
(* Runs that start after the shared prerequisites, with wider inputs.      *)
(***************************************************************************)
\* the state main() is in once the image is in place and the keys exist
Staged ==
    /\ exit = Running
    /\ rerun = FALSE
    /\ vmsFile = File(ArchiveBlocks)
    /\ imagesFile = File(ArchiveBlocks)
    /\ qcow2File = File(ImageBlocks)
    /\ tmpFile = NoTmp
    /\ strategy = "none"
    /\ child = "none"
    /\ privateKeyFile = [exists |-> TRUE, key |-> "k", mode |-> "0600"]
    /\ start = Snapshot(TRUE, TRUE, TRUE)
    /\ i = 0
    /\ instance = NoPorts
    /\ prof = NoProfile
    /\ biosArgs = <<>>
    /\ args = <<>>
    /\ procs = NoProcs
    /\ printed = <<>>
    /\ httpGets = 0
    /\ extractCalls = 0
    /\ keyGens = 0
    /\ spawns = 0
    /\ okCalls = 1

\* the characters of the public key strings that are enumerated
KeyAlphabet == {"k", "SP", "NL", "DQ", "BS", "LT", "xFF", "uFFFD"}

\* the Docker ports that are enumerated
PortSamples == {Str("0"), Str("80"), <<"2", "3", "7", "7">>, <<"6", "5", "5", "3", "5">>}

\* main() from the synthesis of the canonical document to its file
InitConfig ==
    /\ Staged
    /\ Idle
    /\ config \in {[DefaultConfig EXCEPT !.ports.docker = p] : p \in PortSamples}
    /\ host \in Hosts
    /\ pc = "ign_create"
    /\ sshPublicKey \in StringsUpTo(KeyAlphabet, MaxKeyLen)
    /\ publicKeyFile = KeyFile(sshPublicKey)
    /\ ignitionConfig = <<>>
    /\ configFiles = [f \in ConfigPaths |-> NoConfigFile]
    /\ synthesized = 0

NextConfig == CreateIgnition \/ Validate \/ WriteConfig

SpecConfig == InitConfig /\ [][NextConfig]_vars

RECURSIVE BaseAt(_, _)
\* the k-th of six base ports that lie g[1], g[2], ... apart
BaseAt(g, k) == IF k = 1 THEN 8 ELSE BaseAt(g, k - 1) + g[k - 1]

\* six base ports given to the categories in the order `order`
PortsFromGaps(g, order) ==
    [n \in PortNames |->
        Itoa(BaseAt(g, CHOOSE k \in 1..Len(order) : order[k] = n))]

\* base ports written with a sign or with leading zeros
SignedPorts ==
    [DefaultPorts EXCEPT !.ssh = <<"-", "1">>, !.vnc = <<"+", "7">>,
                         !.http = <<"0", "0", "9", "9">>]

PortConfigs ==
    {[DefaultConfig EXCEPT !.Instances = n, !.ports = p] :
        n \in 1..MaxInstances,
        p \in {DefaultPorts, BadPorts, SignedPorts} \cup
              {PortsFromGaps(g, order) :
                  g \in [1..5 -> 0..MaxGap],
                  order \in {PortOrder,
                             <<"k0s", "kubernetes", "docker", "http", "vnc", "ssh">>}}}

\* main() at the loop that derives and prints the ports of every instance
InitPorts ==
    /\ Staged
    /\ Idle
    /\ config \in PortConfigs
    /\ host \in Hosts
    /\ pc = "print"
    /\ sshPublicKey = <<"ssh-rsa", "SP", "k">>
    /\ publicKeyFile = KeyFile(sshPublicKey)
    /\ ignitionConfig = createIgnitionConfig(sshPublicKey, config.ports.docker)
    /\ configFiles = [f \in ConfigPaths |->
                        IF f = CanonicalConfigFile
                        THEN [exists |-> TRUE, content |-> ignitionConfig]
                        ELSE NoConfigFile]
    /\ synthesized = 1

NextPorts == PrintDetails

SpecPorts == InitPorts /\ [][NextPorts]_vars

\* the architectures given with -arch
Archs == {"aarch64", "x86_64", "amd64", "riscv64", "ppc64", "s390x"}

\* the hosts of the runs over the architectures
ProfileHosts ==
    {[goos |-> os, firmware |-> fw] :
        os \in {"darwin", "linux", "windows", "freebsd"},
        fw \in SUBSET {"/opt/homebrew/share/qemu/edk2-aarch64-code.fd",
                       "/usr/share/AAVMF/AAVMF_CODE.fd",
                       "/usr/share/OVMF/OVMF_CODE.fd",
                       "/usr/share/edk2/ovmf/OVMF_CODE.fd"}}

ProfileConfigs ==
    {[DefaultConfig EXCEPT !.Architecture = a, !.EnableAcceleration = e,
                           !.CustomArgs = c, !.Instances = n] :
        a \in Archs, e \in BOOLEAN, c \in {<<>>, <<Str("-nographic")>>},
        n \in 1..MaxInstances}

\* main() from the choice of the profile to the end of the run
InitProfile ==
    /\ Staged
    /\ Idle
    /\ config \in ProfileConfigs
    /\ host \in ProfileHosts
    /\ pc = "profile"
    /\ sshPublicKey = <<"ssh-rsa", "SP", "k">>
    /\ publicKeyFile = KeyFile(sshPublicKey)
    /\ ignitionConfig = createIgnitionConfig(sshPublicKey, config.ports.docker)
    /\ configFiles = [f \in ConfigPaths |->
                        IF f = CanonicalConfigFile
                        THEN [exists |-> TRUE, content |-> ignitionConfig]
                        ELSE NoConfigFile]
    /\ synthesized = 1

NextProfile ==
    \/ Profile \/ Bios \/ LoopHead \/ Ports \/ InstanceIgnition
    \/ InstanceWrite \/ Args \/ Spawn \/ Wait0
    \/ \E j \in 0..(MaxInstances - 1) : ProcExit(j)

SpecProfile == InitProfile /\ [][NextProfile]_vars

\* base port values that strconv.Atoi refuses
NonNumericBases == {<<"2", "3", "x">>, <<>>, <<"8", "0", "SP">>}

\* VNC base ports near the end of the first ten displays
VncBases == {<<"5", "9", "0", "8">>, <<"5", "9", "1", "0">>}

\* the configurations of the runs over the base ports: the defaults, the
\* defaults with another VNC base port, and the defaults with one of the six
\* base ports replaced by a value that is no number; loadConfig takes any
\* number of instances, zero included
LaunchConfigs ==
    {[DefaultConfig EXCEPT !.Instances = n, !.ports = p] :
        n \in 0..MaxInstances,
        p \in {DefaultPorts} \cup
              {[DefaultPorts EXCEPT !.vnc = v] : v \in VncBases} \cup
              {[DefaultPorts EXCEPT ![c] = b] :
                  c \in PortNames, b \in NonNumericBases}}

\* main() from the loop that prints the ports to the end of the run
InitLaunch ==
    /\ Staged
    /\ Idle
    /\ config \in LaunchConfigs
    /\ host \in Hosts
    /\ pc = "print"
    /\ sshPublicKey = <<"ssh-rsa", "SP", "k">>
    /\ publicKeyFile = KeyFile(sshPublicKey)
    /\ ignitionConfig = createIgnitionConfig(sshPublicKey, config.ports.docker)
    /\ configFiles = [f \in ConfigPaths |->
                        IF f = CanonicalConfigFile
                        THEN [exists |-> TRUE, content |-> ignitionConfig]
                        ELSE NoConfigFile]
    /\ synthesized = 1

NextLaunch ==
    \/ PrintDetails \/ Profile \/ Bios \/ LoopHead \/ Ports
    \/ InstanceIgnition \/ InstanceWrite \/ Args \/ Spawn \/ Wait0
    \/ \E j \in 0..(MaxInstances - 1) : ProcExit(j)

SpecLaunch == InitLaunch /\ [][NextLaunch]_vars

(***************************************************************************)
(* The components on their own.                                            *)
(***************************************************************************)
\* a host on which no pipeline run has been started
Unstarted ==
    /\ config = DefaultConfig
    /\ host = [goos |-> "linux", firmware |-> {}]
    /\ pc = "start"
    /\ exit = Running
    /\ rerun = FALSE
    /\ vmsFile = Absent
    /\ imagesFile = Absent
    /\ qcow2File = Absent
    /\ tmpFile = NoTmp
    /\ strategy = "none"
    /\ child = "none"
    /\ publicKeyFile = NoKeyFile
    /\ privateKeyFile = NoPrivateKey
    /\ start = Snapshot(FALSE, FALSE, FALSE)
    /\ configFiles = [f \in ConfigPaths |-> NoConfigFile]
    /\ sshPublicKey = <<>>
    /\ ignitionConfig = <<>>
    /\ i = 0
    /\ instance = NoPorts
    /\ prof = NoProfile
    /\ biosArgs = <<>>
    /\ args = <<>>
    /\ procs = NoProcs
    /\ printed = <<>>
    /\ httpGets = 0
    /\ extractCalls = 0
    /\ keyGens = 0
    /\ synthesized = 0
    /\ spawns = 0
    /\ okCalls = 0

pipelineVars ==
    <<config, host, pc, exit, rerun, start, imageFiles, extractVars, keyFiles,
      docVars, loopVars, procs, counters>>

\* resp.ContentLength, or -1: unknown, zero, less than what is sent, more
Totals == {-1, 0, 1, 2 * MaxBuf}

Min(a, b) == IF a < b THEN a ELSE b

\* one Write call of the stream: the clock has moved on by d steps
Written(len, d) ==
    Write(pw, len, Min(stream.now + d, MaxClock))

\* io.Copy(out, io.TeeReader(resp.Body, pw)): the reader hands what it read
\* to Write and returns an error only if Write did; io.Copy writes to the
\* file what the reader returned
TeeRead ==
    /\ stream.kind = "tee"
    /\ stream.err = "nil"
    /\ Len(stream.lens) < MaxWrites
    /\ \E len \in 1..MaxBuf, d \in 0..2 :
          LET r == Written(len, d)
          IN  /\ pw' = r.pw
              /\ stream' =
                    [stream EXCEPT
                       !.now = Min(@ + d, MaxClock),
                       !.lens = Append(@, len),
                       !.n = r.n,
                       !.err = r.err,
                       !.delivered = @ + (IF r.err = "nil" THEN len ELSE r.n),
                       !.lines = @ + (IF r.printed THEN 1 ELSE 0)]
    /\ UNCHANGED <<pipelineVars, raceVars>>

\* io.Copy(io.MultiWriter(tmp, pw), stdout): the buffer goes to the temp
\* file, then to Write; an error of Write, or a count other than the length
\* of the buffer, ends the copy
MultiWrite ==
    /\ stream.kind = "multi"
    /\ stream.err = "nil"
    /\ Len(stream.lens) < MaxWrites
    /\ \E len \in 1..MaxBuf, d \in 0..2 :
          LET r == Written(len, d)
          IN  /\ pw' = r.pw
              /\ stream' =
                    [stream EXCEPT
                       !.now = Min(@ + d, MaxClock),
                       !.lens = Append(@, len),
                       !.n = r.n,
                       !.err = IF r.err # "nil" THEN r.err
                               ELSE IF r.n # len THEN "ErrShortWrite"
                               ELSE "nil",
                       !.delivered = @ + len,
                       !.lines = @ + (IF r.printed THEN 1 ELSE 0)]
    /\ UNCHANGED <<pipelineVars, raceVars>>

\* a download (total from the response) or an extraction (total -1) begins
InitProgress ==
    /\ Unstarted
    /\ RaceIdle
    /\ \E k \in {"tee", "multi"}, t \in Totals :
          /\ k = "multi" => t = -1
          /\ pw = [total |-> t, processed |-> 0, last |-> 0]
          /\ stream = [NoStream EXCEPT !.kind = k]

NextProgress == TeeRead \/ MultiWrite

SpecProgress == InitProgress /\ [][NextProgress]_vars

(***************************************************************************)
(* Two runs of ensureCoreOSImage at the same time in one directory.  Both  *)
(* are given the same version and architecture, so both name the same      *)
(* three paths and both receive the same bytes.                            *)
(***************************************************************************)
\* run r goes on at label l
RunGoto(r, l) == runs' = [runs EXCEPT ![r].pc = l]

\* ensureCoreOSImage of run r returns
RunReturn(r, result) == [runs[r] EXCEPT !.pc = "done", !.result = result]

\* the temp file of no run
NoFile == [exists |-> FALSE, size |-> 0, by |-> 0]

\* os.Stat(vmsFile) of run r
RunStatCache(r) ==
    /\ runs[r].pc = "stat"
    /\ RunGoto(r, IF disk.cache.exists THEN "place" ELSE "get")
    /\ UNCHANGED <<pipelineVars, progressVars, disk>>

\* http.Get(url) and the status check of run r
RunHttpGet(r) ==
    /\ runs[r].pc = "get"
    /\ \E ok \in BOOLEAN :
          runs' = [runs EXCEPT ![r] =
                      IF ok THEN [@ EXCEPT !.pc = "create"] ELSE RunReturn(r, "err")]
    /\ UNCHANGED <<pipelineVars, progressVars, disk>>

\* os.Create(vmsFile) of run r: the file is made, or cut to no length, and
\* the run holds a descriptor at offset 0
RunCreateCache(r) ==
    /\ runs[r].pc = "create"
    /\ \E ok \in BOOLEAN :
          IF ok
          THEN /\ disk' = [disk EXCEPT !.cache = [exists |-> TRUE, blocks |-> <<>>]]
               /\ runs' = [runs EXCEPT ![r].pc = "copy", ![r].off = 0]
          ELSE /\ runs' = [runs EXCEPT ![r] = RunReturn(r, "err")]
               /\ UNCHANGED disk
    /\ UNCHANGED <<pipelineVars, progressVars>>

\* the blocks of a file after block b was written at offset off: a write
\* past the end leaves a gap of zeros
WriteAt(blocks, off, b) ==
    [k \in 1..(IF off + 1 > Len(blocks) THEN off + 1 ELSE Len(blocks)) |->
        IF k = off + 1 THEN b
        ELSE IF k <= Len(blocks) THEN blocks[k]
        ELSE Hole]

\* RunCopyBlock with a fault: the descriptor appends
RunCopyBlockAppend(r) ==
    /\ runs[r].pc = "copy"
    /\ runs[r].off < ArchiveBlocks
    /\ disk' = [disk EXCEPT !.cache.blocks =
                   Append(@, [by |-> r, k |-> runs[r].off + 1])]
    /\ runs' = [runs EXCEPT ![r].off = @ + 1]
    /\ UNCHANGED <<pipelineVars, progressVars>>

\* io.Copy of run r writes the next block of the body at the offset of its
\* descriptor
RunCopyBlock(r) ==
    /\ runs[r].pc = "copy"
    /\ runs[r].off < ArchiveBlocks
    /\ disk' = [disk EXCEPT !.cache.blocks =
                   WriteAt(@, runs[r].off, [by |-> r, k |-> runs[r].off + 1])]
    /\ runs' = [runs EXCEPT ![r].off = @ + 1]
    /\ UNCHANGED <<pipelineVars, progressVars>>

\* io.Copy of run r ends: with an error before the end of the body, without
\* one at the end
RunCopyEnd(r) ==
    /\ runs[r].pc = "copy"
    /\ runs' = [runs EXCEPT ![r] =
                   IF runs[r].off = ArchiveBlocks
                   THEN [@ EXCEPT !.pc = "place", !.downloaded = TRUE]
                   ELSE RunReturn(r, "err")]
    /\ UNCHANGED <<pipelineVars, progressVars, disk>>

\* linkOrCopy(vmsFile, imagesFile) of run r: it writes under images/ only,
\* and not the decompressed path
RunLinkOrCopy(r) ==
    /\ runs[r].pc = "place"
    /\ \E ok \in BOOLEAN :
          runs' = [runs EXCEPT ![r] =
                      IF ok THEN [@ EXCEPT !.pc = "statq"] ELSE RunReturn(r, "err")]
    /\ UNCHANGED <<pipelineVars, progressVars, disk>>

\* os.Stat(qcow2File) of run r, and the first strategy of extractXZFast
RunStatImage(r) ==
    /\ runs[r].pc = "statq"
    /\ runs' = [runs EXCEPT ![r] =
                   IF disk.image.exists
                   THEN RunReturn(r, "nil")
                   ELSE [@ EXCEPT !.pc = "x_tmp", !.strategy = "xz"]]
    /\ UNCHANGED <<pipelineVars, progressVars, disk>>

\* the strategy of run r returned an error: the next one, or the error of
\* the last one
RunStrategyFailed(r) ==
    IF runs[r].strategy = "go"
    THEN [RunReturn(r, "err") EXCEPT !.tmp = 0, !.read = 0, !.strategy = "none"]
    ELSE [runs[r] EXCEPT !.pc = "x_tmp", !.tmp = 0, !.read = 0,
                         !.strategy = IF @ = "xz" THEN "unxz" ELSE "go"]

\* the deferred tmp.Close() and os.Remove(tmp.Name()) of run r
RunCleanup(r) == [disk EXCEPT !.temps[runs[r].tmp] = NoFile]

\* RunCreateTemp with a fault: the temp file has one fixed name, and is cut
\* to no length when it is there
RunCreateTempFixedName(r) ==
    /\ runs[r].pc = "x_tmp"
    /\ \E ok \in BOOLEAN :
          IF ok
          THEN /\ disk' = [disk EXCEPT !.temps[1] =
                              [exists |-> TRUE, size |-> 0, by |-> r]]
               /\ runs' = [runs EXCEPT ![r].pc = "x_copy", ![r].tmp = 1,
                                       ![r].read = 0]
          ELSE /\ runs' = [runs EXCEPT ![r] = RunStrategyFailed(r)]
               /\ UNCHANGED disk
    /\ UNCHANGED <<pipelineVars, progressVars>>

\* os.CreateTemp of run r: a new file under a name that no file has
RunCreateTemp(r) ==
    /\ runs[r].pc = "x_tmp"
    /\ \E ok \in BOOLEAN :
          IF ok
          THEN \E name \in {n \in TmpNames : ~disk.temps[n].exists} :
                  /\ disk' = [disk EXCEPT !.temps[name] =
                                 [exists |-> TRUE, size |-> 0, by |-> r]]
                  /\ runs' = [runs EXCEPT ![r].pc = "x_copy", ![r].tmp = name,
                                          ![r].read = 0]
          ELSE /\ runs' = [runs EXCEPT ![r] = RunStrategyFailed(r)]
               /\ UNCHANGED disk
    /\ UNCHANGED <<pipelineVars, progressVars>>

\* the decompressor of run r has the next block of the archive to read
Readable(r) ==
    /\ runs[r].read < Len(disk.cache.blocks)
    /\ disk.cache.blocks[runs[r].read + 1] # Hole

\* the copy of run r moves one more block of the image into its temp file
RunDecodeBlock(r) ==
    /\ runs[r].pc = "x_copy"
    /\ runs[r].read < ImageBlocks
    /\ Readable(r)
    /\ disk' = [disk EXCEPT !.temps[runs[r].tmp].size =
                   IF runs[r].read + 1 > @ THEN runs[r].read + 1 ELSE @]
    /\ runs' = [runs EXCEPT ![r].read = @ + 1]
    /\ UNCHANGED <<pipelineVars, progressVars>>

\* the copy of run r fails: the archive ends early or holds zeros where the
\* stream should go on, or a write to the temp file fails
RunDecodeError(r) ==
    /\ runs[r].pc = "x_copy"
    /\ runs[r].read < ImageBlocks
    /\ disk' = RunCleanup(r)
    /\ runs' = [runs EXCEPT ![r] = RunStrategyFailed(r)]
    /\ UNCHANGED <<pipelineVars, progressVars>>

\* the copy of run r is at the end of the stream: the wait for the
\* decompressor, tmp.Sync() and tmp.Close()
RunSyncClose(r) ==
    /\ runs[r].pc = "x_copy"
    /\ runs[r].read = ImageBlocks
    /\ \E ok \in BOOLEAN :
          IF ok
          THEN RunGoto(r, "x_rename") /\ UNCHANGED disk
          ELSE /\ disk' = RunCleanup(r)
               /\ runs' = [runs EXCEPT ![r] = RunStrategyFailed(r)]
    /\ UNCHANGED <<pipelineVars, progressVars>>

\* os.Rename(tmp.Name(), dstPath) of run r
RunRename(r) ==
    /\ runs[r].pc = "x_rename"
    /\ \E ok \in BOOLEAN :
          IF ok /\ disk.temps[runs[r].tmp].exists
          THEN /\ disk' = [disk EXCEPT !.image = disk.temps[runs[r].tmp],
                                       !.temps[runs[r].tmp] = NoFile]
               /\ runs' = [runs EXCEPT ![r] =
                              [RunReturn(r, "nil") EXCEPT !.tmp = 0, !.read = 0,
                                                          !.strategy = "none"]]
          ELSE /\ disk' = RunCleanup(r)
               /\ runs' = [runs EXCEPT ![r] = RunStrategyFailed(r)]
    /\ UNCHANGED <<pipelineVars, progressVars>>

\* both runs are started on an empty cache
InitRace ==
    /\ Unstarted
    /\ pw = NoWriter
    /\ stream = NoStream
    /\ runs = [r \in Runs |-> [NoRun EXCEPT !.pc = "stat", !.result = "running"]]
    /\ disk = NoDisk

NextRace ==
    \E r \in Runs :
        \/ RunStatCache(r) \/ RunHttpGet(r) \/ RunCreateCache(r)
        \/ RunCopyBlock(r) \/ RunCopyEnd(r) \/ RunLinkOrCopy(r)
        \/ RunStatImage(r) \/ RunCreateTemp(r) \/ RunDecodeBlock(r)
        \/ RunDecodeError(r) \/ RunSyncClose(r) \/ RunRename(r)

SpecRace == InitRace /\ [][NextRace]_vars

(***************************************************************************)
(* Properties                                                              *)
(***************************************************************************)
\* C1: once a call of ensureCoreOSImage has returned nil, no later step
\* requests the image over HTTP or changes the compressed cache file; and a
\* call that returns nil has made no request when the cache file was there
\* at the start of the run and exactly one when it was not, so that two
\* calls one after the other make one download.
C1_IdempotentAcquisition ==
    /\ [][okCalls >= 1 => httpGets' \in {httpGets, 0} /\ vmsFile' = vmsFile]_vars
    /\ [](pc = "main_stat" => httpGets = IF start.cache THEN 0 ELSE 1)

\* a second call has returned nil, and this run has made no request
C1_Witness == okCalls = 2 /\ pc = "main_stat" /\ httpGets = 0 /\ rerun

\* C2: the decompressed image is absent or complete in every state, whatever
\* step of a strategy fails and whenever the external decompressor is
\* killed; and it only changes by the rename of a temp file that holds the
\* whole image and has been synced and closed.
C2_AtomicDecompression ==
    /\ [](qcow2File.exists => qcow2File.size = ImageBlocks)
    /\ [][qcow2File' # qcow2File =>
            /\ pc = "x_rename"
            /\ tmpFile.exists
            /\ tmpFile.size = ImageBlocks
            /\ tmpFile.synced
            /\ ~tmpFile.open
            /\ qcow2File' = File(ImageBlocks)]_vars

\* the external decompressor was killed after a part of the image had been
\* written to the temp file
C2_Witness ==
    /\ pc = "x_wait"
    /\ child = "exitErr"
    /\ tmpFile.exists
    /\ 0 < tmpFile.size
    /\ tmpFile.size < ImageBlocks
    /\ ~qcow2File.exists

\* the key a provisioning document carries, as a decoder reads it
EmbeddedKey(doc) == Unmarshal(doc).config.passwd.users[1].sshAuthorizedKeys[1]

\* generateSSHKeyPair is called exactly by the step that finds the public
\* key file absent, and a run that found it present changes no key file
KeyGate ==
    [][/\ keyGens' = keyGens + 1 => pc = "key_stat" /\ ~publicKeyFile.exists
       /\ pc = "key_stat" /\ pc' = "key_read" =>
             publicKeyFile.exists /\ keyGens' = keyGens
       /\ pc = "key_stat" /\ pc' = "key_gen" =>
             ~publicKeyFile.exists /\ keyGens' = keyGens + 1
       /\ pc = "key_stat" => pc' \in {"key_read", "key_gen", "done"}
       /\ start.key /\ pc # "done" =>
             publicKeyFile' = publicKeyFile /\ privateKeyFile' = privateKeyFile]_vars

\* C3: generateSSHKeyPair is called if and only if the public key file is
\* absent when it is checked, whatever the private key file is; when the
\* public key file is present no key file is written or changed, and the key
\* in the provisioning documents is the content of that file (valid UTF-8)
\* without its leading and trailing white space.
C3_KeyGenerationGate ==
    /\ KeyGate
    /\ [][/\ start.key /\ ignitionConfig' # ignitionConfig /\ ignitionConfig' # <<>> =>
             EmbeddedKey(ignitionConfig') = TrimSpace(publicKeyFile.content)
          /\ \A f \in ConfigPaths :
                start.key /\ configFiles'[f] # configFiles[f] =>
                   EmbeddedKey(configFiles'[f].content) =
                      TrimSpace(publicKeyFile.content)]_vars

\* a public key file that ends with a newline, no private key file, no key
\* generated, and the document of the first instance synthesized
C3_Witness ==
    /\ pc = "inst_write"
    /\ start.key
    /\ ~privateKeyFile.exists
    /\ keyGens = 0
    /\ publicKeyFile.content = <<"ssh-rsa", "SP", "k", "NL">>
    /\ EmbeddedKey(ignitionConfig) = <<"ssh-rsa", "SP", "k">>

\* C3 as stated: the key in the documents is the content of the file
C3_Original ==
    start.key /\ ignitionConfig # <<>> =>
        EmbeddedKey(ignitionConfig) = publicKeyFile.content

\* no byte of s is outside UTF-8
ValidUTF8(s) == \A k \in 1..Len(s) : s[k] # "xFF"

\* parsing the document gives the structure that was serialized: version
\* 3.4.0, the one user core with the trimmed key, the four units in their
\* order, enabled, with their texts
RoundTrip ==
    LET r == Unmarshal(ignitionConfig)
        d == r.config
    IN  /\ ~r.err
        /\ d = IgnitionStruct(sshPublicKey, config.ports.docker)
        /\ d.ignition.version = Str("3.4.0")
        /\ Len(d.passwd.users) = 1
        /\ d.passwd.users[1].name = Str("core")
        /\ d.passwd.users[1].sshAuthorizedKeys = <<TrimSpace(sshPublicKey)>>
        /\ [k \in 1..Len(d.systemd.units) |-> d.systemd.units[k].name] =
              <<Str("docker-setup.service"), Str("docker-tcp-proxy.service"),
                Str("disable-zincati.service"), Str("setup-linger-core.service")>>
        /\ \A k \in 1..Len(d.systemd.units) : d.systemd.units[k].enabled
        /\ d.systemd.units[2].contents = dockerTcpServiceContents(config.ports.docker)

\* C4: for every public key string that is valid UTF-8 and every
\* non-negative port, parsing the bytes createIgnitionConfig returns gives
\* a structure equal to the one that was serialized.
C4_ConfigRoundTrip ==
    pc \in {"ign_validate", "ign_write"} /\ ValidUTF8(sshPublicKey) => RoundTrip

\* a key with a quote and an HTML character, both written as escapes
C4_Witness ==
    /\ pc = "ign_write"
    /\ sshPublicKey = <<"DQ", "LT">>
    /\ config.ports.docker = <<"2", "3", "7", "7">>

\* C4 as stated: for every public key string
C4_Original == pc \in {"ign_validate", "ign_write"} => RoundTrip

\* C5: for every base port that is a number and every instance index, the
\* port derived for the instance is the base plus the index, for each of the
\* six categories from its own base alone; with the default bases and three
\* instances the SSH ports are 2222, 2223, 2224 and the Docker ports 2377,
\* 2378, 2379.
C5_PortDerivation ==
    \A a \in 1..Len(printed) : \A n \in PortNames :
        LET base == Atoi(config.ports[n])
            port == Atoi(printed[a][n])
        IN  ~base.err =>
               /\ ~port.err
               /\ port.val = base.val + (a - 1)
               /\ printed[a][n] = calculatePort(config.ports[n], a - 1).port

\* the default bases, three instances derived
C5_Witness ==
    /\ config.ports = DefaultPorts
    /\ Len(printed) = 3
    /\ [a \in 1..3 |-> printed[a].ssh] =
          <<<<"2", "2", "2", "2">>, <<"2", "2", "2", "3">>, <<"2", "2", "2", "4">>>>
    /\ [a \in 1..3 |-> printed[a].docker] =
          <<<<"2", "3", "7", "7">>, <<"2", "3", "7", "8">>, <<"2", "3", "7", "9">>>>

\* the distance between two numbers
Distance(x, y) == IF x < y THEN y - x ELSE x - y

\* the six base ports are numbers that lie pairwise at least Instances apart
Spaced ==
    /\ \A n \in PortNames : ~Atoi(config.ports[n]).err
    /\ \A m, n \in PortNames :
          m # n => Distance(Atoi(config.ports[m]).val, Atoi(config.ports[n]).val)
                      >= config.Instances

\* C6: when the six base ports are pairwise at least N apart for N
\* instances, no derived port is used by two instances or by two categories.
C6_PortDisjointness ==
    Spaced =>
        \A a, b \in 1..Len(printed) : \A m, n \in PortNames :
            (a # b \/ m # n) => printed[a][m] # printed[b][n]

\* bases exactly N apart, and every instance derived
C6_Witness ==
    /\ Spaced
    /\ config.Instances = 3
    /\ Len(printed) = 3
    /\ Distance(Atoi(config.ports.ssh).val, Atoi(config.ports.vnc).val) = 3

\* C7: the orchestrator stays at the wait for instance 0 as long as that
\* process runs and leaves it only when the process has ended; for every
\* instance i >= 1 a start that succeeds is followed at once by the next
\* iteration, with the process identifier reported, and the orchestrator is
\* never at a wait for such an instance.
C7_ForegroundBackground ==
    /\ [](procs[0].state = "running" /\ exit.status = "running" => pc = "wait0")
    /\ [](pc = "wait0" => i = 0)
    /\ [][/\ pc = "wait0" /\ pc' # "wait0" /\ exit'.status # "killed" =>
                procs[0].state \in {"exit0", "exitErr"}
          /\ pc = "spawn" /\ i >= 1 /\ pc' \notin {"spawn", "done"} =>
                /\ pc' = "loop"
                /\ i' = i + 1
                /\ procs'[i].state = "running"
                /\ procs'[i].pidReported
                /\ ~procs'[i].foreground]_vars

\* the run has ended while a background instance still runs
C7_Witness ==
    /\ pc = "done"
    /\ exit.status = "exit0"
    /\ procs[0].state = "exit0"
    /\ procs[1].state = "running"
    /\ procs[1].pidReported

\* the argument after -netdev forwards this host port to port 22
ForwardsSSH(a, port) ==
    \E k \in 1..(Len(a) - 1) :
        /\ a[k] = Str("-netdev")
        /\ SubSeq(a[k + 1], 1, Len(Str("user,id=net0,hostfwd=tcp::") \o port) + 1) =
              Str("user,id=net0,hostfwd=tcp::") \o port \o Str("-:22,hostfwd=tcp::")

\* C8: a run that succeeds with one instance and the default ports, started
\* with no cached image and no key pair, has made one download, one
\* decompression, one key-pair generation and one spawn, in the foreground
\* with SSH host port 2222, and the document of the instance is at
\* configs/ignition.json.
C8_ScenarioA ==
    (/\ pc = "done" /\ exit.status = "exit0" /\ exit.cause = "none"
     /\ config.Instances = 1 /\ config.ports = DefaultPorts
     /\ start = Snapshot(FALSE, FALSE, FALSE)) =>
        /\ httpGets = 1
        /\ extractCalls = 1
        /\ keyGens = 1
        /\ spawns = 1
        /\ procs[0].foreground
        /\ procs[0].state = "exit0"
        /\ \A j \in 1..(MaxInstances - 1) : procs[j].state = "none"
        /\ ForwardsSSH(procs[0].args, <<"2", "2", "2", "2">>)
        /\ configFiles[CanonicalConfigFile].exists
        /\ configFiles[CanonicalConfigFile].content =
              configFiles[InstanceConfigFile(0)].content
        /\ ~Unmarshal(configFiles[CanonicalConfigFile].content).err

\* such a run has ended
C8_Witness ==
    /\ pc = "done" /\ exit.status = "exit0" /\ exit.cause = "none"
    /\ config.Instances = 1 /\ config.ports = DefaultPorts
    /\ start = Snapshot(FALSE, FALSE, FALSE)
    /\ ~rerun
    /\ spawns = 1

\* the profile is the fallback one and no -bios argument is in the vector
FallbackProfile ==
    /\ pc # "profile" =>
          /\ prof.binary = <<"qemu-system-", config.Architecture>>
          /\ prof.biosCandidates = <<>>
    /\ biosArgs = <<>>
    /\ \A k \in 1..Len(args) : args[k] # Str("-bios")

\* C9: for every architecture string not in {aarch64, x86_64, amd64},
\* profileForArch returns the binary name qemu-system-<arch> and an empty
\* firmware-candidate list, so no -bios argument is appended.
C9_ProfileFallback ==
    config.Architecture \notin {"aarch64", "x86_64", "amd64"} => FallbackProfile

\* an architecture without a profile of its own, on a host that has
\* firmware files, with the argument vector built
C9_Witness ==
    /\ config.Architecture = "riscv64"
    /\ pc = "spawn"
    /\ "/usr/share/OVMF/OVMF_CODE.fd" \in host.firmware
    /\ args # <<>>

\* C9 as stated: for every architecture string not in {aarch64, x86_64}
C9_Original ==
    config.Architecture \notin {"aarch64", "x86_64"} => FallbackProfile

\* the operations of image acquisition and of key generation and reading
SharedCauses ==
    {"mkdir", "download", "http status", "create", "save", "place", "extract",
     "image missing", "keygen", "keyread"}

\* C10: when image acquisition (download, staging, extraction) or the
\* generation or the reading of the key pair fails, the run ends and has
\* synthesized no document and started no hypervisor process.
C10_SharedFailuresFatal ==
    exit.cause \in SharedCauses =>
        /\ pc = "done"
        /\ exit.status \in {"exit0", "exit1"}
        /\ synthesized = 0
        /\ spawns = 0
        /\ \A j \in 0..(MaxInstances - 1) : procs[j].state = "none"

\* a run that ended because every extraction strategy failed, in a
\* directory where an earlier run had not got further either
C10_Witness ==
    /\ exit.cause = "extract"
    /\ pc = "done"
    /\ vmsFile.exists
    /\ ~qcow2File.exists

\* C11: every call of createIgnitionConfig and every spawn is made when
\* ensureCoreOSImage has returned nil, the decompressed image is whole at its
\* path, the public key file exists (generated by this run when it was
\* absent at the start) and main() holds what it read from that file.
C11_PrerequisitesFirst ==
    [][synthesized' = synthesized + 1 \/ spawns' = spawns + 1 =>
          /\ okCalls >= 1
          /\ qcow2File = File(ImageBlocks)
          /\ publicKeyFile.exists
          /\ keyGens = (IF start.key THEN 0 ELSE 1)
          /\ sshPublicKey = publicKeyFile.content]_vars

\* the first document is synthesized in a run that had to download the
\* image and to generate the key pair
C11_Witness ==
    /\ pc = "ign_validate"
    /\ synthesized = 1
    /\ start = Snapshot(FALSE, FALSE, FALSE)
    /\ keyGens = 1
    /\ httpGets = 1

\* C12: every spawn is that of the instance whose index is the number of
\* spawns made before it in this run, so that the indices go up one by one,
\* no index is spawned twice, and every lower index has been spawned with
\* success before.
C12_StartOrder ==
    /\ [][spawns' = spawns + 1 =>
             /\ i = spawns
             /\ procs[i].state = "none"
             /\ procs'[i].state = "running"
             /\ \A j \in 0..(i - 1) : procs[j].state # "none"
             /\ \A j \in (i + 1)..(MaxInstances - 1) : procs[j].state = "none"]_vars
    /\ [](\A j \in 0..(MaxInstances - 1) :
             procs[j].state # "none" <=> j < spawns)

\* the third instance has been started
C12_Witness ==
    /\ spawns = 3
    /\ procs[2].state = "running"
    /\ pc = "loop"

\* main() takes a step of its instance loop
Advance ==
    \/ LoopHead \/ Ports \/ InstanceIgnition \/ InstanceWrite \/ Args
    \/ Spawn \/ Wait0

\* C13 as stated: with two or more instances the hypervisor of instance 0
\* and that of a later instance run at the same time.  A later instance
\* runs from its spawn on, so main() has to be able to go on to that spawn
\* while the hypervisor of instance 0 runs.
C13_Original ==
    (/\ config.Instances >= 2
     /\ exit.status = "running"
     /\ procs[0].state = "running") => ENABLED Advance

\* what the code does instead: no later instance is running, or has been
\* started, while the hypervisor of instance 0 runs
C13_NeverTogether ==
    procs[0].state = "running" =>
        \A k \in 1..(MaxInstances - 1) : procs[k].state = "none"

\* C14: when the first instance cannot be started or ends with an error, or
\* the start of a later instance fails, the run ends with status 1 after a
\* message, and no instance with a higher index is spawned, then or later in
\* the run.
C14_NoContinuation ==
    /\ [](exit.cause \in {"spawn", "run"} =>
            /\ pc = "done"
            /\ exit.status = "exit1"
            /\ exit.reported
            /\ spawns = (IF exit.cause = "run" THEN 1 ELSE i)
            /\ \A j \in (i + 1)..(MaxInstances - 1) : procs[j].state = "none")
    /\ [](procs[0].state = "exitErr" /\ pc # "wait0" =>
            /\ pc = "done"
            /\ exit.status \in {"exit1", "killed"}
            /\ spawns = 1)
    /\ [][pc = "done" => spawns' \in {spawns, 0}]_vars

\* the start of the second instance has failed after the first one ended
\* without error
C14_Witness ==
    /\ exit.cause = "spawn"
    /\ i = 1
    /\ procs[0].state = "exit0"
    /\ config.Instances = 3

\* one of the six base ports of the configuration is no decimal integer
NonNumericBase == \E n \in PortNames : Atoi(config.ports[n]).err

\* C15: with one instance or more and a base port that is no decimal
\* integer, no hypervisor process is spawned, main() never gets past the
\* derivation of the ports of the first instance, and the run ends with
\* status 1 after a message: at that derivation, or before it when the
\* hypervisor binary is not found.
C15_NonNumericFatal ==
    (config.Instances >= 1 /\ NonNumericBase) =>
        /\ spawns = 0
        /\ \A j \in 0..(MaxInstances - 1) : procs[j].state = "none"
        /\ pc \notin {"inst_create", "inst_write", "args", "spawn", "wait0"}
        /\ pc = "done" => /\ exit.status = "exit1"
                          /\ exit.cause \in {"lookpath", "port"}
                          /\ exit.reported
                          /\ i = 0

\* three instances and a last-derived base port that is empty: the ports of
\* the three were printed, and the run has ended at the first derivation
C15_Witness ==
    /\ config.Instances = 3
    /\ config.ports.k0s = <<>>
    /\ Len(printed) = 3
    /\ pc = "done"
    /\ exit.cause = "port"

\* C15 as stated, for every number of instances: a run with a base port
\* that is no decimal integer ends with failure status
C15_Original ==
    (NonNumericBase /\ pc = "done") => exit.status = "exit1" /\ spawns = 0

\* the failures of ensureCoreOSImage
ImageCauses == {"mkdir", "download", "http status", "create", "save", "place", "extract"}

\* C16 as stated: a run that has ended because an operation failed has
\* written an error message that names the operation before it ended.
C16_Original ==
    (pc = "done" /\ exit.cause \notin {"none", "killed"}) => exit.reported

\* what the code does: the failures of ensureCoreOSImage, and no others, end
\* the run without a message and with status 0
C16_SilentImageFailure ==
    (pc = "done" /\ exit.cause \notin {"none", "killed"}) =>
        IF exit.cause \in ImageCauses
        THEN ~exit.reported /\ exit.status = "exit0"
        ELSE exit.reported /\ exit.status = "exit1"

\* the request for the image has failed and the run has ended in silence
C16_Witness ==
    /\ pc = "done"
    /\ exit = [status |-> "exit0", cause |-> "download", reported |-> FALSE]
    /\ httpGets = 1

\* C17: extractXZFast starts with the external xz, goes from it to the
\* external unxz and from that to the in-process decompressor, and to no
\* other strategy, so each is tried at most once in a call; a strategy is
\* left only on its failure, without a message and without an end of the
\* run before the last one; an external strategy whose binary is not found
\* is left without a process having been started; the image file is put in
\* place by the strategy in progress alone, which ends the call with nil;
\* and the call returns an error only from the in-process decompressor.
C17_FallbackOrder ==
    [][/\ strategy' # strategy =>
            \/ /\ strategy = "none" /\ strategy' = "xz"
               /\ pc = "img_statq" /\ pc' = "x_look"
               /\ extractCalls' = extractCalls + 1
            \/ /\ strategy = "xz" /\ strategy' = "unxz"
               /\ pc' = "x_look" /\ exit' = exit /\ qcow2File' = qcow2File
            \/ /\ strategy = "unxz" /\ strategy' = "go"
               /\ pc' = "x_look" /\ exit' = exit /\ qcow2File' = qcow2File
            \/ /\ strategy = "go" /\ strategy' = "none"
               /\ exit'.cause = "extract" /\ qcow2File' = qcow2File
            \/ /\ strategy' = "none" /\ pc = "x_rename" /\ pc' = "main_stat"
               /\ qcow2File'.exists /\ okCalls' >= 1
            \/ /\ strategy' = "none" /\ pc = "done" /\ pc' = "start"
       /\ (pc = "x_look" /\ strategy' # strategy) => child' = child
       /\ (child' = "running" /\ child # "running") =>
            strategy \in {"xz", "unxz"} /\ strategy' = strategy
       /\ qcow2File' # qcow2File =>
            strategy # "none" /\ strategy' = "none" /\ pc' = "main_stat"
       /\ (exit'.cause = "extract" /\ exit.cause # "extract") =>
            strategy = "go" /\ extractCalls' = extractCalls
       /\ extractCalls' # extractCalls => strategy = "none" \/ pc = "done"]_vars

\* both external decompressors have failed, and the in-process one is about
\* to put the image in place
C17_Witness ==
    /\ strategy = "go"
    /\ pc = "x_rename"
    /\ tmpFile.size = ImageBlocks
    /\ extractCalls = 1
    /\ child = "none"

\* the provisioning document that the hypervisor of instance j is given
\* through -fw_cfg
HandedDocument(j) == configFiles[InstanceConfigFile(j)]

\* C18 as stated: every document handed to a spawned hypervisor has been
\* re-parsed by main() after its serialization.  The one document main()
\* re-parses is the canonical one, which it then writes to
\* configs/ignition.json, so a document handed to a hypervisor has been
\* checked when it is that document, byte for byte.
C18_Original ==
    \A j \in 0..(MaxInstances - 1) :
        procs[j].state # "none" =>
            /\ HandedDocument(j).exists
            /\ HandedDocument(j).content = configFiles[CanonicalConfigFile].content

\* what the code does: the document of the first instance is the checked
\* one, and no document of a later instance is
C18_OnlyFirstChecked ==
    \A j \in 0..(MaxInstances - 1) :
        procs[j].state # "none" =>
            /\ HandedDocument(j).exists
            /\ HandedDocument(j).content = configFiles[CanonicalConfigFile].content
                  <=> j = 0

\* the second instance runs on a document that no step has parsed
C18_Witness ==
    /\ procs[1].state = "running"
    /\ HandedDocument(1).exists
    /\ HandedDocument(1).content # configFiles[CanonicalConfigFile].content
    /\ ~rerun

\* C19 as stated: when generateSSHKeyPair has returned nil, the private key
\* file has mode 0600, whatever was at its path before the call.
C19_Original ==
    (pc = "key_read" /\ keyGens = 1) => privateKeyFile.mode = "0600"

\* what the code does: the mode is given to a private key file that the
\* call creates, and a file that is there keeps its mode when the new key
\* is written into it
C19_ModeKept ==
    [][/\ privateKeyFile.exists => privateKeyFile'.mode = privateKeyFile.mode
       /\ (~privateKeyFile.exists /\ privateKeyFile'.exists) =>
             privateKeyFile'.mode = "0600"]_vars

\* generateSSHKeyPair has returned nil after it wrote a new private key into
\* a file that others can read
C19_Witness ==
    /\ pc = "key_read"
    /\ keyGens = 1
    /\ ~start.key
    /\ privateKeyFile.mode = "0644"
    /\ privateKeyFile.key # "k"
    /\ publicKeyFile = KeyFile(publicKeyString(privateKeyFile.key))

\* C20: when io.Copy of the response body fails, the file that os.Create
\* made stays at the cache path with the part that arrived; no step other
\* than that copy changes a cache file that is there, in this run or in a
\* later one; a run that finds a cache file, whole or not, makes no HTTP
\* request and goes from the os.Stat of it to linkOrCopy, which stages that
\* very file, and from there to extractXZFast when the image is missing.
C20_PartialCacheHit ==
    /\ [](exit.cause = "save" =>
            vmsFile.exists /\ vmsFile.size < ArchiveBlocks /\ httpGets = 1)
    /\ [](start.cache => httpGets = 0)
    /\ [][/\ (vmsFile.exists /\ pc # "img_copy") => vmsFile' = vmsFile
          /\ (pc = "img_stat" /\ vmsFile.exists /\ pc' # "done") =>
                pc' = "img_link"
          /\ (pc \in {"img_link", "img_hardlink", "img_copyfile"}
                /\ pc' = "img_statq") => imagesFile' = vmsFile
          /\ (pc = "img_statq" /\ ~qcow2File.exists /\ pc' # "done") =>
                /\ pc' = "x_look"
                /\ extractCalls' = extractCalls + 1]_vars

\* a later run decompresses the half of the archive that an earlier run
\* left behind, and has made no request
C20_Witness ==
    /\ rerun
    /\ start.cache
    /\ vmsFile = File(1)
    /\ imagesFile = vmsFile
    /\ httpGets = 0
    /\ pc = "x_copy"
    /\ strategy = "xz"
    /\ tmpFile.size = Producible

\* C21: when http.Get fails or the status is not 200, ensureCoreOSImage
\* returns its error in that step, which changes no file; there is then no
\* compressed cache file, no staged copy and no temp file, and nothing has
\* been decompressed in the run; and a call that finds no cache file goes
\* from the os.Stat to a request.
C21_AcquisitionErrorCleanCache ==
    /\ [](exit.cause \in {"download", "http status"} =>
            /\ pc = "done"
            /\ ~vmsFile.exists
            /\ ~imagesFile.exists
            /\ tmpFile = NoTmp
            /\ httpGets = 1
            /\ extractCalls = 0
            /\ okCalls = 0)
    /\ [][/\ (exit'.cause \in {"download", "http status"}
                /\ exit.cause \notin {"download", "http status"}) =>
                /\ pc = "img_get"
                /\ imageFiles' = imageFiles
                /\ extractVars' = extractVars
          /\ (pc = "img_stat" /\ ~vmsFile.exists /\ pc' # "done") =>
                pc' = "img_get"
          /\ (pc = "img_get" /\ exit'.status # "killed") =>
                httpGets' = httpGets + 1]_vars

\* a later run has found no cache file, has made its own request, and that
\* request has failed too
C21_Witness ==
    /\ rerun
    /\ ~start.cache
    /\ pc = "done"
    /\ exit.cause = "http status"
    /\ httpGets = 1
    /\ ~vmsFile.exists

\* the value that follows the flag f in the argument vector a
FlagValue(a, f) == a[1 + CHOOSE k \in 1..(Len(a) - 1) : a[k] = f]

\* the TCP port a hypervisor started with -vnc :d listens on, 5900 + d
VncListenPort(a) == 5900 + Atoi(Tail(FlagValue(a, Str("-vnc")))).val

\* C22 as stated: with a VNC base port of 5900 or more, the hypervisor of
\* every started instance listens for the graphical console on the VNC port
\* derived for that instance and printed in the connection details.
C22_Original ==
    Atoi(config.ports.vnc).val >= 5900 =>
        \A j \in 0..(MaxInstances - 1) :
            procs[j].state # "none" =>
                /\ VncListenPort(procs[j].args) = Atoi(config.ports.vnc).val + j
                /\ printed[j + 1].vnc = Itoa(VncListenPort(procs[j].args))

\* what the code does: the display is the last decimal digit of the derived
\* port
C22_LastDigit ==
    Atoi(config.ports.vnc).val >= 5900 =>
        \A j \in 0..(MaxInstances - 1) :
            procs[j].state # "none" =>
                VncListenPort(procs[j].args) =
                    5900 + ((Atoi(config.ports.vnc).val + j) % 10)

\* the third instance was announced on port 5910 and listens on port 5900
C22_Witness ==
    /\ procs[2].state = "running"
    /\ printed[3].vnc = <<"5", "9", "1", "0">>
    /\ FlagValue(procs[2].args, Str("-vnc")) = <<":", "0">>

\* the places of the flag f in the argument vector a
Positions(a, f) == {k \in 1..Len(a) : a[k] = f}

\* the flags every argument vector has between the CPU model and the serial
\* flags
CoreFlags ==
    {Str("-M"), Str("-smp"), Str("-m"), Str("-drive"), Str("-netdev"),
     Str("-device"), Str("-vnc"), Str("-fw_cfg"), Str("-global"), Str("-rtc")}

\* the argument vector a of instance j is in the order of C23
InOrder(a, j) ==
    LET n      == Len(a)
        bEnd   == n - Len(config.CustomArgs)
        aEnd   == bEnd - Len(biosArgs)
        c      == IF a[1] = Str("-cpu") /\ a[2] = prof.cpu THEN 2 ELSE 0
        s      == CHOOSE k \in 1..n : a[k] = Str("-serial")
        sEnd   == IF j = 0 THEN s + 1 ELSE s + 2
    IN  /\ SubSeq(a, bEnd + 1, n) = config.CustomArgs
        /\ SubSeq(a, aEnd + 1, bEnd) = biosArgs
        /\ Positions(a, Str("-bios")) =
              IF biosArgs = <<>> THEN {} ELSE {aEnd + 1}
        /\ \A k \in Positions(a, Str("-cpu")) : a[k + 1] = prof.cpu => k = 1
        /\ a[c + 1] = Str("-M")
        /\ \A f \in CoreFlags :
              /\ Positions(a, f) # {}
              /\ \A k \in Positions(a, f) : c < k /\ k < s
        /\ Positions(a, Str("-serial")) = {s}
        /\ a[s + 1] = (IF j = 0 THEN Str("stdio") ELSE Str("null"))
        /\ j # 0 => a[s + 2] = Str("-daemonize")
        /\ \A k \in Positions(a, Str("-accel")) : k = sEnd + 1
        /\ sEnd < aEnd => a[sEnd + 1] = Str("-accel")
        /\ sEnd <= aEnd

\* C23: the argument vector of every started instance has the generic -cpu
\* flag, when there is one, in the first place; then the machine, CPU count,
\* memory, disk, network, console and clock flags and after them the serial
\* flags; then the acceleration flags; then -bios and the firmware when one
\* was found; and the passthrough arguments of the configuration, in their
\* order, in the last places.
C23_ArgumentOrder ==
    \A j \in 0..(MaxInstances - 1) :
        procs[j].state # "none" => InOrder(procs[j].args, j)

\* a background instance runs with a vector that has all five parts
C23_Witness ==
    /\ procs[1].state = "running"
    /\ procs[1].args[1] = Str("-cpu")
    /\ Positions(procs[1].args, Str("-accel")) # {}
    /\ Positions(procs[1].args, Str("-bios")) # {}
    /\ config.CustomArgs # <<>>
    /\ procs[1].args[Len(procs[1].args)] = Str("-nographic")

\* the acceleration backends by host OS
Backends == [darwin |-> Str("hvf"), linux |-> Str("kvm"), windows |-> Str("whpx")]

Enlightenments == Str("host,hv_relaxed,hv_spinlocks=0x1fff,hv_vapic,hv_time")

\* the places of the -cpu flags of the argument vector a whose value is v
CpuFlags(a, v) == {k \in Positions(a, Str("-cpu")) : a[k + 1] = v}

ExistingCandidates ==
    {k \in 1..Len(prof.biosCandidates) : prof.biosCandidates[k] \in host.firmware}

\* the earliest candidate that is on the host
EarliestCandidate ==
    prof.biosCandidates[CHOOSE k \in ExistingCandidates :
                            \A m \in ExistingCandidates : k <= m]

\* C26: once main() has looked for a firmware, findFirstExisting has given
\* the empty string when no candidate of the profile is on the host and the
\* earliest candidate that is on the host otherwise; and the argument vector
\* of every started instance has -bios, once and followed by that candidate,
\* in the second case and no -bios in the first.
C26_FirmwareSelection ==
    (pc \notin {"profile", "bios"} /\ exit.cause # "lookpath") =>
        /\ findFirstExisting(prof.biosCandidates, host.firmware) =
              (IF ExistingCandidates = {} THEN "" ELSE EarliestCandidate)
        /\ biosArgs = (IF ExistingCandidates = {} THEN <<>>
                       ELSE <<Str("-bios"), Str(EarliestCandidate)>>)
        /\ \A j \in 0..(MaxInstances - 1) :
              procs[j].state # "none" =>
                 LET a == procs[j].args
                     P == Positions(a, Str("-bios"))
                 IN  IF ExistingCandidates = {} THEN P = {}
                     ELSE /\ Cardinality(P) = 1
                          /\ \A k \in P : a[k + 1] = Str(EarliestCandidate)

\* two candidates of the profile are on the host, and an instance runs with
\* the earlier one, which is not the first of the list
C26_Witness ==
    /\ Cardinality(ExistingCandidates) = 2
    /\ 1 \notin ExistingCandidates
    /\ procs[0].state = "running"
    /\ FlagValue(procs[0].args, Str("-bios")) = Str(EarliestCandidate)

\* the text t is the text u with the port q in the place of the port p
SameButPort(t, p, u, q) ==
    \E n \in 0..Len(t) :
        /\ SubSeq(t, 1, n) = SubSeq(u, 1, n)
        /\ SubSeq(t, n + 1, n + Len(p)) = p
        /\ SubSeq(u, n + 1, n + Len(q)) = q
        /\ SubSeq(t, n + Len(p) + 1, Len(t)) = SubSeq(u, n + Len(q) + 1, Len(u))

\* the decoded documents d, of an instance with Docker port p, and e, of an
\* instance with Docker port q, are the same but for that port in the text
\* of the forwarder unit
SharedIdentity(d, p, e, q) ==
    /\ d.ignition = e.ignition
    /\ d.passwd = e.passwd
    /\ Len(d.passwd.users) = 1
    /\ Len(d.passwd.users[1].sshAuthorizedKeys) = 1
    /\ Len(d.systemd.units) = Len(e.systemd.units)
    /\ \A k \in 1..Len(d.systemd.units) :
          LET x == d.systemd.units[k]
              y == e.systemd.units[k]
          IN  /\ x.name = y.name
              /\ x.enabled = y.enabled
              /\ IF x.name = Str("docker-tcp-proxy.service")
                 THEN SameButPort(x.contents, p, y.contents, q)
                 ELSE x.contents = y.contents

\* C27: when main() writes the document of an instance, that document and
\* the document of every instance written before it in the run decode to the
\* same version, the same one user with the same one key, and the same
\* units with the same names and texts, but for the text of the forwarder
\* unit, where the one has its own Docker port in the place where the other
\* has its own.
C27_SharedIdentity ==
    [][(pc = "inst_write" /\ configFiles' # configFiles) =>
          LET new == Unmarshal(configFiles'[InstanceConfigFile(i)].content)
          IN  /\ ~new.err
              /\ new.config.passwd.users[1].sshAuthorizedKeys[1] =
                    TrimSpace(publicKeyFile.content)
              /\ \A j \in 0..(i - 1) :
                    LET old == Unmarshal(configFiles[InstanceConfigFile(j)].content)
                    IN  /\ ~old.err
                        /\ SharedIdentity(new.config, instance.docker,
                                          old.config, printed[j + 1].docker)]_vars

\* the documents of three instances have been written in one run, each not
\* the same bytes as the one before it
C27_Witness ==
    /\ pc = "args"
    /\ i = 2
    /\ ~rerun
    /\ configFiles[InstanceConfigFile(2)].exists
    /\ configFiles[InstanceConfigFile(2)].content # configFiles[InstanceConfigFile(1)].content
    /\ configFiles[InstanceConfigFile(1)].content # configFiles[InstanceConfigFile(0)].content

\* the path configs/ignition-instance-(j+1).json
InstancePath(j) == Str("configs/ignition-instance-") \o Itoa(j + 1) \o Str(".json")

\* the document createIgnitionConfig gives for the Docker base port plus j
InstanceDocument(j) ==
    createIgnitionConfig(sshPublicKey, Itoa(Atoi(config.ports.docker).val + j))

\* C28: main() gets to the start of the hypervisor of instance i only by way
\* of a successful write of the document just synthesized to the path of
\* that instance; at the start that file holds the document for the Docker
\* base port plus i, and the -fw_cfg argument of the instance names that
\* path; and when the write fails the run ends with status 1 in that step,
\* with no process for that instance.
C28_DocumentHandoff ==
    /\ [][/\ (pc' = "spawn" /\ pc # "spawn") => pc = "args"
          /\ (pc' = "args" /\ pc # "args") =>
                /\ pc = "inst_write"
                /\ configFiles'[InstancePath(i)] =
                      [exists |-> TRUE, content |-> ignitionConfig]
                /\ ignitionConfig = InstanceDocument(i)
          /\ spawns' = spawns + 1 =>
                /\ configFiles[InstancePath(i)].exists
                /\ configFiles[InstancePath(i)].content = InstanceDocument(i)
                /\ FlagValue(procs'[i].args, Str("-fw_cfg")) =
                      Str("name=opt/com.coreos/config,file=") \o InstancePath(i)
          /\ (pc = "inst_write" /\ pc' = "done" /\ exit'.status # "killed") =>
                /\ exit' = [status |-> "exit1", cause |-> "write", reported |-> TRUE]
                /\ configFiles' = configFiles
                /\ spawns' = spawns]_vars
    /\ [](pc = "done" /\ exit.cause = "write" => procs[i].state = "none")

\* the second instance runs on the file of its own path, which holds the
\* document for the port after the base port
C28_Witness ==
    /\ procs[1].state = "running"
    /\ FlagValue(procs[1].args, Str("-fw_cfg")) =
          Str("name=opt/com.coreos/config,file=") \o InstancePath(1)
    /\ configFiles[InstancePath(1)].content =
          createIgnitionConfig(sshPublicKey, <<"2", "3", "7", "8">>)

\* C29: extractXZFast is called only by the step that finds the decompressed
\* image absent; the step that finds it present returns nil and changes no
\* file, starts no decompressor and creates no temp file; an image that is
\* there is never changed; and a run that began with the image in place
\* calls no decompressor and touches no temp file.
C29_LazyExtraction ==
    /\ [][/\ extractCalls' = extractCalls + 1 =>
                pc = "img_statq" /\ ~qcow2File.exists /\ pc' = "x_look"
          /\ (pc = "img_statq" /\ qcow2File.exists /\ exit'.status # "killed") =>
                /\ pc' = "main_stat"
                /\ okCalls' >= 1
                /\ extractCalls' = extractCalls
                /\ imageFiles' = imageFiles
                /\ extractVars' = extractVars
          /\ qcow2File.exists => qcow2File' = qcow2File
          /\ (child' = "running" /\ child # "running") => ~qcow2File.exists
          /\ (tmpFile' # tmpFile) => ~qcow2File.exists \/ qcow2File' # qcow2File
          /\ start.image /\ pc # "done" => tmpFile' = tmpFile]_vars
    /\ [](start.image =>
            extractCalls = 0 /\ strategy = "none" /\ child = "none")

\* a later run has found the image in place and the call has returned nil
\* without a decompression
C29_Witness ==
    /\ rerun
    /\ start.image
    /\ pc = "main_stat"
    /\ okCalls = 2
    /\ extractCalls = 0
    /\ qcow2File = File(ImageBlocks)

\* main() is in linkOrCopy or in copyFile
Staging == {"img_link", "img_hardlink", "img_copyfile"}

RECURSIVE SumLens(_)
\* the sum of the lengths of the buffers in s
SumLens(s) == IF s = <<>> THEN 0 ELSE Head(s) + SumLens(Tail(s))

\* C32: after any sequence of Write calls, processed is the sum of the
\* lengths of the buffers written; every Write returns the length of its
\* buffer and a nil error, so that the stream the writer is attached to is
\* neither cut short nor ended by it, whether the total is known or -1
C32_ProgressAccounting ==
    stream.kind # "none" =>
        /\ pw.processed = SumLens(stream.lens)
        /\ stream.err = "nil"
        /\ stream.delivered = SumLens(stream.lens)
        /\ stream.lens # <<>> => stream.n = stream.lens[Len(stream.lens)]

\* MaxWrites buffers have gone through a writer whose total was less than
\* what came
C32_Witness ==
    /\ Len(stream.lens) = MaxWrites
    /\ pw.total = 1
    /\ pw.processed > pw.total
    /\ stream.lines >= 2


\* the characters of s between the first a and the first b after it
Between(s, a, b) ==
    LET from == CHOOSE k \in 1..Len(s) :
                    s[k] = a /\ \A h \in 1..(k - 1) : s[h] # a
        to   == CHOOSE k \in (from + 1)..Len(s) :
                    s[k] = b /\ \A h \in (from + 1)..(k - 1) : s[h] # b
    IN  SubSeq(s, from + 1, to - 1)

\* the port after TCP-LISTEN: in the forwarder unit of the document data
ListenPort(data) ==
    LET units == Unmarshal(data).config.systemd.units
        k == CHOOSE k \in 1..Len(units) :
                units[k].name = Str("docker-tcp-proxy.service")
    IN  Between(units[k].contents,
                "ExecStart=/usr/bin/socat TCP-LISTEN:",
                ",bind=0.0.0.0,fork,reuseaddr UNIX-CONNECT:/var/run/docker.sock")

\* the second hostfwd rule of the -netdev value of a: its host side and its
\* guest side
ApiRule(a) ==
    LET nd   == FlagValue(a, Str("-netdev"))
        rule == Between(nd, "-:22,hostfwd=tcp::", ",hostfwd=tcp::")
        dash == CHOOSE k \in 1..Len(rule) : rule[k] = "-:"
    IN  [hostPort |-> SubSeq(rule, 1, dash - 1),
         guestPort |-> SubSeq(rule, dash + 1, Len(rule))]

\* C33: when the hypervisor of instance i is started, the port on which the
\* forwarder unit of the document of that instance listens is the guest side
\* of the container-API rule in the argument vector of that instance, and
\* the host side of that rule is the Docker base port plus i
C33_ForwarderConsistency ==
    [][spawns' = spawns + 1 =>
          LET rule == ApiRule(procs'[i].args)
          IN  /\ ListenPort(configFiles[InstanceConfigFile(i)].content) =
                    rule.guestPort
              /\ rule.hostPort = Itoa(Atoi(config.ports.docker).val + i)]_vars

\* the third instance runs with the rule 2379-:2379, and its document
\* listens on 2379
C33_Witness ==
    /\ procs[2].state = "running"
    /\ ApiRule(procs[2].args) =
          [hostPort |-> <<"2", "3", "7", "9">>, guestPort |-> <<"2", "3", "7", "9">>]
    /\ ListenPort(configFiles[InstanceConfigFile(2)].content) = <<"2", "3", "7", "9">>


\* the whole archive, whoever wrote which block
WholeArchive(f) ==
    /\ f.exists
    /\ Len(f.blocks) = ArchiveBlocks
    /\ \A k \in 1..ArchiveBlocks : f.blocks[k].k = k

Extracting == {r \in Runs : runs[r].pc \in {"x_copy", "x_rename"}}

\* C34: when two runs extract at the same time, each writes to a temp file
\* of its own; the decompressed path never holds less than the whole image,
\* and it changes only by the rename of the temp file of one run, which that
\* run has written to the end
C34_ConcurrentAtomicity ==
    /\ [](/\ \A r, q \in Extracting : r # q => runs[r].tmp # runs[q].tmp
          /\ \A r \in Extracting : disk.temps[runs[r].tmp].by = r
          /\ disk.image.exists => disk.image.size = ImageBlocks)
    /\ [][disk'.image # disk.image =>
             \E r \in Runs :
                /\ runs[r].pc = "x_rename"
                /\ runs'[r].pc = "done"
                /\ runs[r].read = ImageBlocks
                /\ disk.temps[runs[r].tmp] =
                      [exists |-> TRUE, size |-> ImageBlocks, by |-> r]
                /\ disk'.image = disk.temps[runs[r].tmp]
                /\ ~disk'.temps[runs[r].tmp].exists]_vars

\* run 1 has renamed its temp file to the decompressed path while run 2,
\* which found that path absent, has written half of its own temp file
C34_Witness ==
    /\ runs[1].result = "nil"
    /\ disk.image = [exists |-> TRUE, size |-> ImageBlocks, by |-> 1]
    /\ runs[2].pc = "x_copy"
    /\ runs[2].tmp # 0
    /\ disk.temps[runs[2].tmp] = [exists |-> TRUE, size |-> 1, by |-> 2]

\* extractWithExternalXZ has returned and a decompressor it started has not
\* been waited for
NotWaited == child = "abandoned"

\* the strategy waits in io.ReadAll(stderr) for the end of a decompressor
\* that waits for room in the pipe of its stdout, which nobody reads
DrainBlocked ==
    /\ pc = "x_drain"
    /\ child = "running"
    /\ tmpFile.size + 1 < Producible

\* the strategy waits in io.Copy for the stdout of a decompressor that waits
\* for room in the pipe of its stderr, which nobody reads
StderrBlocked == pc = "x_copy" /\ child = "blocked"

\* C35 as stated: after a successful start extractWithExternalXZ always
\* returns, and it has waited for the decompressor when it does: no state
\* has a decompressor left unwaited by a strategy that has returned, and in
\* no state do the strategy and the decompressor wait for one another.
C35_Original == ~NotWaited /\ ~DrainBlocked /\ ~StderrBlocked

\* C35: the three cases happen.  os.CreateTemp fails after cmd.Start() and
\* the strategy returns "create temp" with no cmd.Wait(): the run goes on
\* to the next strategy with the first decompressor still there.
C35_NoWaitAfterCreateTemp ==
    /\ NotWaited
    /\ strategy = "unxz"
    /\ pc = "x_look"

\* a write to the temp file has failed on the first block of two and the
\* decompressor has its second block to write
C35_Witness ==
    /\ DrainBlocked
    /\ tmpFile.size = 0
    /\ strategy = "xz"

\* the decompressor has filled its stderr before the end of its output
C35_StderrFull ==
    /\ StderrBlocked
    /\ tmpFile.size < ImageBlocks


\* the strategies of extractXZFast in their order
Rank(s) == CASE s = "none" -> 0 [] s = "xz" -> 1 [] s = "unxz" -> 2 [] s = "go" -> 3

ProgramMade == publicKeyFile.exists /\ publicKeyFile \notin InitialPublicKeys

\* C37: the public key file is written only after the private key file of
\* the same call has been written to its end, and with the key of that file;
\* so a public key file made by the program is there only with the private
\* key it belongs to, whatever failed or was killed; a call that ends
\* between the two writes leaves no public key file, and a run that finds
\* none generates the pair again
C37_KeyWriteOrder ==
    /\ [](ProgramMade =>
            /\ privateKeyFile.exists
            /\ privateKeyFile.key \in {GeneratedKeys[k] : k \in 1..3}
            /\ publicKeyFile.content # <<>> =>
                  publicKeyFile.content = publicKeyString(privateKeyFile.key))
    /\ [][/\ publicKeyFile' # publicKeyFile =>
                /\ pc = "key_pub"
                /\ privateKeyFile' = privateKeyFile
          /\ (pc' = "key_pub" /\ pc # "key_pub") =>
                /\ pc = "key_priv"
                /\ ~publicKeyFile.exists
                /\ privateKeyFile'.key \notin {"", privateKeyFile.key}
          /\ (pc = "key_pub" /\ pc' = "done" /\ publicKeyFile' = publicKeyFile) =>
                ~publicKeyFile'.exists
          /\ (pc = "key_priv" /\ pc' = "done") => ~publicKeyFile'.exists
          /\ (pc = "key_stat" /\ ~publicKeyFile.exists /\ exit'.status # "killed") =>
                pc' = "key_gen" /\ keyGens' = keyGens + 1]_vars

\* a first run ended between the two writes, with one private key written
\* and no public key; the next run has written another pair
C37_Witness ==
    /\ rerun
    /\ pc = "key_read"
    /\ keyGens = 1
    /\ ~start.key
    /\ privateKeyFile.key = "g2"
    /\ publicKeyFile = KeyFile(publicKeyString("g2"))


\* the strategy in progress returns an error in this step
StrategyReturnsError ==
    /\ exit'.status # "killed"
    /\ \/ strategy = "xz" /\ strategy' = "unxz"
       \/ strategy = "unxz" /\ strategy' = "go"
       \/ strategy = "go" /\ strategy' = "none" /\ exit'.cause = "extract"

\* where a strategy is once os.CreateTemp has given it a temp file
AfterCreateTemp == {"x_copy", "x_drain", "x_wait", "x_sync", "x_close", "x_rename"}

\* the strategy in progress returns nil in this step
StrategyReturnsNil == pc = "x_rename" /\ pc' = "main_stat"

C39_Original ==
    (/\ pc = "done"
     /\ exit.cause \notin {"none", "killed"}
     /\ spawns < config.Instances) => exit.status = "exit1"

\* the image was downloaded and staged, none of the three strategies could
\* extract it, and the run of three instances has ended with status 0
\* before any of them was started
C39_Witness ==
    /\ pc = "done"
    /\ exit.status = "exit0"
    /\ exit.cause = "extract"
    /\ config.Instances = MaxInstances
    /\ spawns = 0
    /\ httpGets = 1
    /\ imagesFile.exists

=============================================================================
